---- MODULE Spec2Model ----
(***************************************************************************)
(* F5 configuration comparison (lambda_function.py): the site-aware IP     *)
(* classifier and the virtual-server comparison engine.                    *)
(*                                                                         *)
(* Python strings are TLA+ strings; a character is a string of length 1,   *)
(* taken with SubSeq(s, i, i).  Python dicts are functions.                *)
(***************************************************************************)
EXTENDS Integers, Sequences, FiniteSets, TLC

VARIABLES
    vs1, vs2,            \* the two parsed sets given to compare_virtual_servers
    pc,                  \* position in compare_virtual_servers
    names,               \* sorted(all_vs_names) not yet visited
    vs_name,             \* the loop variable of the outer loop
    env_type,
    keys,                \* sorted(all_keys) not yet visited
    configurations,
    has_differences, is_critical, is_warning,
    comparison_data,
    ip1, ip2,            \* arguments of a direct call of classify_ip_difference
    cpc,                 \* position in that call
    norm1, site1, norm2, site2,
    ip_result,
    apc,                 \* position in analyze_patterns
    insights,            \* the dict analyze_patterns builds and returns
    content,             \* the text given to parse_ltm_virtual_servers
    written,             \* the declarations that text was written from
    ppc,                 \* position in parse_ltm_virtual_servers
    pmatches,            \* the matches of vs_pattern not yet visited
    virtual_servers,     \* the dict parse_ltm_virtual_servers builds
    hpc,                 \* position in lambda_handler
    remote1, remote2,    \* the configuration files on the two servers
    TEAMS_WEBHOOK_URL,   \* the environment variable
    content1, content2,  \* the masked contents
    ran,                 \* the external calls made so far, each with its outcome
    exc,                 \* the exception that reached the handler's except clause
    stats,
    s3_url,
    sent,                \* the notifications issued
    response,            \* what lambda_handler returned
    fpc,                 \* position in copy_file_from_remote
    transport,           \* its local variable
    opened,              \* the connection resources that are open
    closes,              \* the close() calls it has made, in order
    failure              \* the exception on its way out of the call, "ok" if none

vars == <<vs1, vs2, pc, names, vs_name, env_type, keys, configurations,
          has_differences, is_critical, is_warning, comparison_data,
          ip1, ip2, cpc, norm1, site1, norm2, site2, ip_result,
          apc, insights, content, written, ppc, pmatches, virtual_servers,
          hpc, remote1, remote2, TEAMS_WEBHOOK_URL, content1, content2, ran, exc,
          stats, s3_url, sent, response,
          fpc, transport, opened, closes, failure>>

compareVars == <<vs1, vs2, pc, names, vs_name, env_type, keys, configurations,
                 has_differences, is_critical, is_warning, comparison_data>>

classifyVars == <<ip1, ip2, cpc, norm1, site1, norm2, site2, ip_result>>

analyzeVars == <<apc, insights>>

\* what a step of compare_virtual_servers, of classify_ip_difference and of
\* analyze_patterns leaves alone
parseVars == <<content, written, ppc, pmatches, virtual_servers>>

handlerVars == <<hpc, remote1, remote2, TEAMS_WEBHOOK_URL, content1, content2,
                 ran, exc, stats, s3_url, sent, response>>

copyVars == <<fpc, transport, opened, closes, failure>>

otherThanCompare == <<classifyVars, analyzeVars, parseVars, handlerVars, copyVars>>
otherThanClassify == <<compareVars, analyzeVars, parseVars, handlerVars, copyVars>>
otherThanAnalyze == <<compareVars, classifyVars, parseVars, handlerVars, copyVars>>
otherThanParse == <<compareVars, classifyVars, analyzeVars, handlerVars, copyVars>>

\* what lambda_handler leaves alone outside the calls of the comparison and of
\* the analysis
handlerInputs == <<remote1, remote2, TEAMS_WEBHOOK_URL>>

(***************************************************************************)
(* Bounds                                                                  *)
(***************************************************************************)
\* largest number of keys in one parsed body
MaxKeys == 2

\* largest number of objects in one parsed set of a run with several objects
MaxObjects == 2

\* largest number of PROD records with a critical issue given to analyze_patterns
MaxCritical == 5

\* largest number of lines in the body of a written declaration
MaxBodyLines == 3

(***************************************************************************)
(* Python string primitives                                                *)
(***************************************************************************)
\* the printable ASCII characters in code-point order: code points 32..95 and
\* 97..126 (code point 96, the backquote, cannot be written in a string here and
\* occurs in no input)
AsciiLow == " !\"#$%&'()*+,-./0123456789:;<=>?@ABCDEFGHIJKLMNOPQRSTUVWXYZ[\\]^_"
AsciiHigh == "abcdefghijklmnopqrstuvwxyz{|}~"

Char(s, i) == SubSeq(s, i, i)

CharSet == {Char(AsciiLow, i) : i \in 1..Len(AsciiLow)}
           \cup {Char(AsciiHigh, i) : i \in 1..Len(AsciiHigh)}

\* ord(c)
Ord == [c \in CharSet |->
          IF \E i \in 1..Len(AsciiLow) : Char(AsciiLow, i) = c
          THEN 31 + (CHOOSE i \in 1..Len(AsciiLow) : Char(AsciiLow, i) = c)
          ELSE 96 + (CHOOSE i \in 1..Len(AsciiHigh) : Char(AsciiHigh, i) = c)]

\* chr(n)
Chr(n) == IF n <= 95 THEN Char(AsciiLow, n - 31) ELSE Char(AsciiHigh, n - 96)

IsDigit(c) == c \in {"0", "1", "2", "3", "4", "5", "6", "7", "8", "9"}

\* a word character of the regex engine (\w), which decides \b
IsWordChar(c) ==
    \/ IsDigit(c)
    \/ c = "_"
    \/ (Ord[c] >= Ord["a"] /\ Ord[c] <= Ord["z"])
    \/ (Ord[c] >= Ord["A"] /\ Ord[c] <= Ord["Z"])

LowerChar(c) ==
    IF Ord[c] >= Ord["A"] /\ Ord[c] <= Ord["Z"]
    THEN Chr(Ord[c] + (Ord["a"] - Ord["A"]))
    ELSE c

RECURSIVE LowerFrom(_, _)
LowerFrom(s, i) ==
    IF i > Len(s) THEN "" ELSE LowerChar(Char(s, i)) \o LowerFrom(s, i + 1)

\* str.lower()
Lower(s) == LowerFrom(s, 1)

\* str.startswith(p)
StartsWith(s, p) == Len(s) >= Len(p) /\ SubSeq(s, 1, Len(p)) = p

\* s[i:] matches p at position i
MatchesAt(s, i, p) ==
    i + Len(p) - 1 <= Len(s) /\ SubSeq(s, i, i + Len(p) - 1) = p

\* p in s
Contains(s, p) == \E i \in 1..(Len(s) + 1) : MatchesAt(s, i, p)

\* s.split('/')[-1]
LastSegment(s) ==
    LET slashes == {i \in 1..Len(s) : Char(s, i) = "/"}
    IN  IF slashes = {} THEN s
        ELSE LET last == CHOOSE i \in slashes : \A j \in slashes : j <= i
             IN  SubSeq(s, last + 1, Len(s))

RECURSIVE StrLessFrom(_, _, _)
StrLessFrom(a, b, i) ==
    IF i > Len(a) THEN i <= Len(b)
    ELSE IF i > Len(b) THEN FALSE
    ELSE IF Char(a, i) = Char(b, i) THEN StrLessFrom(a, b, i + 1)
    ELSE Ord[Char(a, i)] < Ord[Char(b, i)]

\* a < b on Python strings: by code point, a proper prefix first
StrLess(a, b) == StrLessFrom(a, b, 1)

RECURSIVE Sorted_IgnoreCase(_)
\* a sort that compares the lower-cased strings
Sorted_IgnoreCase(S) ==
    IF S = {} THEN <<>>
    ELSE LET m == CHOOSE x \in S : \A y \in S \ {x} : StrLess(Lower(x), Lower(y))
         IN  <<m>> \o Sorted_IgnoreCase(S \ {m})

RECURSIVE Sorted(_)
\* sorted(S) for a set of strings
Sorted(S) ==
    IF S = {} THEN <<>>
    ELSE LET m == CHOOSE x \in S : \A y \in S \ {x} : StrLess(x, y)
         IN  <<m>> \o Sorted(S \ {m})

\* dict.get(k, default)
Get(d, k, default) == IF k \in DOMAIN d THEN d[k] ELSE default

EmptyDict == [k \in {} |-> k]

(***************************************************************************)
(* normalize_site_ip                                                       *)
(***************************************************************************)
nj_prefix == "10.100."
hrz_prefix == "10.200."

RECURSIVE DigitRun(_, _)
\* length of the longest run of digits of s that starts at position i: \d+ is
\* greedy, and no shorter run can be followed by what the pattern wants next
DigitRun(s, i) ==
    IF i <= Len(s) /\ IsDigit(Char(s, i)) THEN 1 + DigitRun(s, i + 1) ELSE 0

\* the match of  prefix(\d+\.\d+)  at position i: the position after it, 0 if none
SiteMatchEnd(s, i, prefix) ==
    IF ~MatchesAt(s, i, prefix) THEN 0
    ELSE LET g  == i + Len(prefix)
             d1 == DigitRun(s, g)
             d2 == DigitRun(s, g + d1 + 1)
         IN  IF d1 > 0 /\ g + d1 <= Len(s) /\ Char(s, g + d1) = "." /\ d2 > 0
             THEN g + d1 + 1 + d2
             ELSE 0

\* re.search: the leftmost position with a match, 0 if none
SiteSearch(s, prefix) ==
    LET hits == {i \in 1..Len(s) : SiteMatchEnd(s, i, prefix) # 0}
    IN  IF hits = {} THEN 0 ELSE CHOOSE i \in hits : \A j \in hits : i <= j

\* match.group(1) of the match at position i
HostPart(s, i, prefix) ==
    SubSeq(s, i + Len(prefix), SiteMatchEnd(s, i, prefix) - 1)

RECURSIVE SiteSubFrom(_, _, _, _)
\* re.sub from position i on: every non-overlapping match, left to right, becomes repl
SiteSubFrom(s, i, prefix, repl) ==
    IF i > Len(s) THEN ""
    ELSE LET e == SiteMatchEnd(s, i, prefix)
         IN  (IF e # 0 THEN repl ELSE Char(s, i))
             \o SiteSubFrom(s, IF e # 0 THEN e ELSE i + 1, prefix, repl)

normalize_site_ip(ip_str) ==
    LET nj_match  == SiteSearch(ip_str, nj_prefix)
        hrz_match == SiteSearch(ip_str, hrz_prefix)
    IN  IF nj_match # 0
        THEN <<SiteSubFrom(ip_str, 1, nj_prefix,
                           "SITE." \o HostPart(ip_str, nj_match, nj_prefix)), "NJ">>
        ELSE IF hrz_match # 0
        THEN <<SiteSubFrom(ip_str, 1, hrz_prefix,
                           "SITE." \o HostPart(ip_str, hrz_match, hrz_prefix)), "HRZ">>
        ELSE <<ip_str, "OTHER">>

(***************************************************************************)
(* classify_ip_difference                                                  *)
(***************************************************************************)
\* the decision with the two site outcomes exchanged
ClassifyNormalized_Swapped(n1, s1, n2, s2) ==
    IF n1 = n2 THEN <<FALSE, "MATCH">>
    ELSE IF s1 \in {"NJ", "HRZ"} /\ s2 \in {"NJ", "HRZ"}
    THEN IF s1 = s2 THEN <<TRUE, "WARNING">> ELSE <<TRUE, "CRITICAL">>
    ELSE <<TRUE, "CRITICAL">>

\* the decision with the equality of the normalized forms tested as containment
ClassifyNormalized_Substring(n1, s1, n2, s2) ==
    IF Contains(n2, n1) THEN <<FALSE, "MATCH">>
    ELSE IF s1 \in {"NJ", "HRZ"} /\ s2 \in {"NJ", "HRZ"}
    THEN IF s1 = s2 THEN <<TRUE, "CRITICAL">> ELSE <<TRUE, "WARNING">>
    ELSE <<TRUE, "CRITICAL">>

\* the decision of classify_ip_difference on the two normalized pairs
ClassifyNormalized(n1, s1, n2, s2) ==
    IF n1 = n2 THEN <<FALSE, "MATCH">>
    ELSE IF s1 \in {"NJ", "HRZ"} /\ s2 \in {"NJ", "HRZ"}
    THEN IF s1 = s2 THEN <<TRUE, "CRITICAL">> ELSE <<TRUE, "WARNING">>
    ELSE <<TRUE, "CRITICAL">>

\* the decision on the two results of normalize_site_ip
ClassifyPair(p1, p2) == ClassifyNormalized(p1[1], p1[2], p2[1], p2[2])

classify_ip_difference(a, b) ==
    ClassifyPair(normalize_site_ip(a), normalize_site_ip(b))

(***************************************************************************)
(* get_environment_type, is_ip_address                                     *)
(***************************************************************************)
get_environment_type(name) ==
    LET name_lower == Lower(name)
    IN  IF StartsWith(name_lower, "prod") THEN "PROD"
        ELSE IF StartsWith(name_lower, "corp") \/ StartsWith(name_lower, "crp") THEN "CORP"
        ELSE IF StartsWith(name_lower, "sb") THEN "SANDBOX"
        ELSE "UNKNOWN"

\* l digits at positions i .. i+l-1
DigitsAt(s, i, l) ==
    i + l - 1 <= Len(s) /\ \A j \in i..(i + l - 1) : IsDigit(Char(s, j))

\* \b between positions i-1 and i
WordBoundary(s, i) ==
    LET before == i > 1 /\ i - 1 <= Len(s) /\ IsWordChar(Char(s, i - 1))
        after  == i >= 1 /\ i <= Len(s) /\ IsWordChar(Char(s, i))
    IN  before # after

\* \d{1,3} at position i followed by a dot: the positions after the dot
OctetDot(s, i) ==
    {i + l + 1 : l \in {l \in 1..3 : DigitsAt(s, i, l) /\ MatchesAt(s, i + l, ".")}}

\* \d{1,3}\b at position i
LastOctet(s, i) == \E l \in 1..3 : DigitsAt(s, i, l) /\ WordBoundary(s, i + l)

\* re.search(r'\b\d{1,3}\.\d{1,3}\.\d{1,3}\.\d{1,3}\b', value)
is_ip_address(value) ==
    \E i \in 1..Len(value) :
        /\ WordBoundary(value, i)
        /\ \E p2 \in OctetDot(value, i) :
             \E p3 \in OctetDot(value, p2) :
               \E p4 \in OctetDot(value, p3) : LastOctet(value, p4)

(***************************************************************************)
(* compare_virtual_servers: the rules for one key                          *)
(***************************************************************************)
MissingMarker == "(missing)"

TimestampKeys == {"last-modified-time", "creation-time"}

is_destination(key) == Contains(Lower(key), "destination")

Entry(key, value1, value2, isDiff, isIP, severity) ==
    [key |-> key, file1 |-> value1, file2 |-> value2,
     isDiff |-> isDiff, isIP |-> isIP, severity |-> severity]

\* a timestamp key compared like any other value
TimestampEntry_Compared(key, value1, value2) ==
    Entry(key, value1, value2, value1 # value2, FALSE,
          IF value1 # value2 THEN "WARNING" ELSE "MATCH")

\* the entry appended for a timestamp key; the flags of the record are not touched
TimestampEntry(key, value1, value2) ==
    Entry(key, value1, value2, FALSE, FALSE, "MATCH")

\* the policy without the cross-site override
DestinationPolicy_NoOverride(env, c) ==
    LET sev2 == IF c[2] = "CRITICAL" /\ env \in {"CORP", "SANDBOX", "UNKNOWN"}
                THEN "WARNING" ELSE c[2]
    IN  [isDiff      |-> sev2 # "MATCH",
         severity    |-> sev2,
         setDiff     |-> sev2 \in {"WARNING", "CRITICAL"},
         setWarning  |-> sev2 = "WARNING",
         setCritical |-> sev2 = "CRITICAL"]

\* the policy whose downgrade forgets the UNKNOWN environment
DestinationPolicy_NoUnknown(env, c) ==
    LET sev1 == IF c[2] = "WARNING" THEN "MATCH" ELSE c[2]
        sev2 == IF sev1 = "CRITICAL" /\ env \in {"CORP", "SANDBOX"}
                THEN "WARNING" ELSE sev1
    IN  [isDiff      |-> sev2 # "MATCH",
         severity    |-> sev2,
         setDiff     |-> sev2 \in {"WARNING", "CRITICAL"},
         setWarning  |-> sev2 = "WARNING",
         setCritical |-> sev2 = "CRITICAL"]

\* the environment policy on the classifier's answer c = <<is_diff, severity>>:
\* the entry's isDiff and severity, and the flags the branch sets
DestinationPolicy(env, c) ==
    LET sev1 == IF c[2] = "WARNING" THEN "MATCH" ELSE c[2]
        dif1 == IF c[2] = "WARNING" THEN FALSE ELSE c[1]
        sev2 == IF sev1 = "CRITICAL" /\ env \in {"CORP", "SANDBOX", "UNKNOWN"}
                THEN "WARNING" ELSE sev1
        dif2 == IF sev2 = "MATCH" THEN FALSE
                ELSE IF sev2 \in {"WARNING", "CRITICAL"} THEN TRUE
                ELSE dif1
    IN  [isDiff      |-> dif2,
         severity    |-> IF dif2 THEN sev2 ELSE "MATCH",
         setDiff     |-> sev2 \in {"WARNING", "CRITICAL"},
         setWarning  |-> sev2 = "WARNING",
         setCritical |-> sev2 = "CRITICAL"]

\* the site-aware branch
DestinationOutcome(env, value1, value2) ==
    DestinationPolicy(env, classify_ip_difference(value1, value2))

\* the general branch with every PROD difference critical
GeneralOutcome_ProdCritical(env, value1, value2) ==
    LET is_diff == value1 # value2
    IN  [isDiff      |-> is_diff,
         severity    |-> IF is_diff /\ env = "PROD" THEN "CRITICAL"
                         ELSE IF is_diff THEN "WARNING" ELSE "MATCH",
         setDiff     |-> is_diff,
         setWarning  |-> is_diff /\ env \in {"CORP", "SANDBOX"},
         setCritical |-> is_diff /\ env = "PROD"]

\* the general branch that looks for the missing marker in value1 only
GeneralOutcome_MissingFirstOnly(env, value1, value2) ==
    LET is_diff == value1 # value2
        missing == value1 = MissingMarker
    IN  [isDiff      |-> is_diff,
         severity    |-> IF is_diff /\ env = "PROD" /\ missing THEN "CRITICAL"
                         ELSE IF is_diff THEN "WARNING" ELSE "MATCH",
         setDiff     |-> is_diff,
         setWarning  |-> is_diff /\ ~(env = "PROD" /\ missing)
                                 /\ (env = "PROD" \/ env \in {"CORP", "SANDBOX"}),
         setCritical |-> is_diff /\ env = "PROD" /\ missing]

\* the general branch that forgets the environment when a value is missing
GeneralOutcome_MissingCritical(env, value1, value2) ==
    LET is_diff == value1 # value2
        missing == value1 = MissingMarker \/ value2 = MissingMarker
    IN  [isDiff      |-> is_diff,
         severity    |-> IF is_diff /\ missing THEN "CRITICAL"
                         ELSE IF is_diff THEN "WARNING" ELSE "MATCH",
         setDiff     |-> is_diff,
         setWarning  |-> is_diff /\ ~missing /\ env \in {"PROD", "CORP", "SANDBOX"},
         setCritical |-> is_diff /\ missing]

\* the general branch whose last case is an else: every difference outside PROD
\* sets the warning flag
GeneralOutcome_WarnOutsideProd(env, value1, value2) ==
    LET is_diff == value1 # value2
        missing == value1 = MissingMarker \/ value2 = MissingMarker
    IN  [isDiff      |-> is_diff,
         severity    |-> IF is_diff /\ env = "PROD" /\ missing THEN "CRITICAL"
                         ELSE IF is_diff THEN "WARNING" ELSE "MATCH",
         setDiff     |-> is_diff,
         setWarning  |-> is_diff /\ ~(env = "PROD" /\ missing),
         setCritical |-> is_diff /\ env = "PROD" /\ missing]

\* the general branch: the entry's isDiff and severity, and the flags it sets
GeneralOutcome(env, value1, value2) ==
    LET is_diff == value1 # value2
        missing == value1 = MissingMarker \/ value2 = MissingMarker
    IN  [isDiff      |-> is_diff,
         severity    |-> IF is_diff /\ env = "PROD" /\ missing THEN "CRITICAL"
                         ELSE IF is_diff THEN "WARNING" ELSE "MATCH",
         setDiff     |-> is_diff,
         setWarning  |-> is_diff /\ ~(env = "PROD" /\ missing)
                                 /\ (env = "PROD" \/ env \in {"CORP", "SANDBOX"}),
         setCritical |-> is_diff /\ env = "PROD" /\ missing]

\* true when the body of that side is empty
MissingInFile(config) == Cardinality(DOMAIN config) = 0

\* the final classification applied in every environment
FinalFlags_AnyEnv(env, no_redundancy, critical, warning) ==
    IF no_redundancy THEN <<FALSE, TRUE>> ELSE <<critical, warning>>

\* no final classification
FinalFlags_None(env, no_redundancy, critical, warning) == <<critical, warning>>

\* the final classification: <<is_critical, is_warning>>
FinalFlags(env, no_redundancy, critical, warning) ==
    IF no_redundancy /\ env \in {"CORP", "SANDBOX"}
    THEN <<FALSE, TRUE>>
    ELSE <<critical, warning>>

BadgeType(critical, warning, no_redundancy) ==
    IF critical THEN "CRITICAL"
    ELSE IF warning \/ no_redundancy THEN "WARNING"
    ELSE "MATCH"

(***************************************************************************)
(* compare_virtual_servers: the locals of the loop body                    *)
(***************************************************************************)
vs_config1 == Get(vs1, vs_name, EmptyDict)
vs_config2 == Get(vs2, vs_name, EmptyDict)
missing_in_file1 == MissingInFile(vs_config1)
missing_in_file2 == MissingInFile(vs_config2)
has_no_redundancy == missing_in_file1 \/ missing_in_file2

\* the key of this iteration and its two values
key == Head(keys)
value1 == Get(vs_config1, key, MissingMarker)
value2 == Get(vs_config2, key, MissingMarker)

InFieldLoop == pc = "keys" /\ keys # <<>>
IsTimestampField == key \in TimestampKeys
IsDestinationField ==
    /\ ~IsTimestampField
    /\ is_destination(key) /\ value1 # MissingMarker /\ value2 # MissingMarker
IsGeneralField == ~IsTimestampField /\ ~IsDestinationField

(***************************************************************************)
(* compare_virtual_servers as a function of its two arguments              *)
(***************************************************************************)
\* the branch of the loop body taken for the key k, and what it yields
KeyOutcome(env, k, v1, v2) ==
    IF k \in TimestampKeys
    THEN [isDiff |-> FALSE, severity |-> "MATCH",
          setDiff |-> FALSE, setWarning |-> FALSE, setCritical |-> FALSE]
    ELSE IF is_destination(k) /\ v1 # MissingMarker /\ v2 # MissingMarker
    THEN DestinationOutcome(env, v1, v2)
    ELSE GeneralOutcome(env, v1, v2)

\* the isIP of the entry appended for the key k
KeyIsIp(k, v1, v2) ==
    IF k \in TimestampKeys THEN FALSE
    ELSE IF is_destination(k) /\ v1 # MissingMarker /\ v2 # MissingMarker THEN TRUE
    ELSE is_ip_address(v1) \/ is_ip_address(v2)

\* the record appended for the object n, from the outcomes os of its keys ks
RecordOf(n, env, c1, c2, ks, os, f) ==
    [name            |-> LastSegment(n),
     path            |-> n,
     environment     |-> env,
     hasDifferences  |-> \E i \in 1..Len(ks) : os[i].setDiff,
     isCritical      |-> f[1],
     isWarning       |-> f[2],
     hasNoRedundancy |-> MissingInFile(c1) \/ MissingInFile(c2),
     missingInFile1  |-> MissingInFile(c1),
     missingInFile2  |-> MissingInFile(c2),
     badgeType       |-> BadgeType(f[1], f[2], MissingInFile(c1) \/ MissingInFile(c2)),
     configurations  |->
        [i \in 1..Len(ks) |->
            Entry(ks[i], Get(c1, ks[i], MissingMarker), Get(c2, ks[i], MissingMarker),
                  os[i].isDiff,
                  KeyIsIp(ks[i], Get(c1, ks[i], MissingMarker),
                          Get(c2, ks[i], MissingMarker)),
                  os[i].severity)]]

\* the flags after the inner loop, then the final classification
RecordFlags(n, env, c1, c2, ks, os) ==
    RecordOf(n, env, c1, c2, ks, os,
             FinalFlags(env, MissingInFile(c1) \/ MissingInFile(c2),
                        \E i \in 1..Len(ks) : os[i].setCritical,
                        \E i \in 1..Len(ks) : os[i].setWarning))

\* the element of a set of one element
The(S) == CHOOSE x \in S : TRUE

\* the inner loop over sorted(all_keys); the outcomes are computed once
RecordKeys(n, env, c1, c2, ks) ==
    The({RecordFlags(n, env, c1, c2, ks, os) :
            os \in {[i \in 1..Len(ks) |->
                       KeyOutcome(env, ks[i], Get(c1, ks[i], MissingMarker),
                                  Get(c2, ks[i], MissingMarker))]}})

\* one iteration of the outer loop; the keys are sorted once
RecordFor(a, b, n) ==
    The({RecordKeys(n, get_environment_type(LastSegment(n)),
                    Get(a, n, EmptyDict), Get(b, n, EmptyDict), ks) :
            ks \in {Sorted(DOMAIN Get(a, n, EmptyDict)
                           \cup DOMAIN Get(b, n, EmptyDict))}})

\* the outer loop over sorted(all_vs_names)
CompareNames(a, b, ns) == [i \in 1..Len(ns) |-> RecordFor(a, b, ns[i])]

compare_virtual_servers(a, b) == CompareNames(a, b, Sorted(DOMAIN a \cup DOMAIN b))

(***************************************************************************)
(* parse_config_block and parse_ltm_virtual_servers                        *)
(*                                                                         *)
(* Indices are 1-based: content[i] of the code is Char(content, i + 1).    *)
(***************************************************************************)
\* the whitespace characters that occur in the texts: what \s matches and
\* what str.strip() and str.split(None) remove
IsSpace(c) == c \in {" ", "\t", "\n", "\r"}

RECURSIVE FirstNonSpace(_, _)
\* the first index at or after i of a character that is not whitespace
FirstNonSpace(s, i) ==
    IF i > Len(s) THEN i
    ELSE IF IsSpace(Char(s, i)) THEN FirstNonSpace(s, i + 1)
    ELSE i

RECURSIVE LastNonSpace(_, _)
LastNonSpace(s, i) ==
    IF i < 1 THEN 0
    ELSE IF IsSpace(Char(s, i)) THEN LastNonSpace(s, i - 1)
    ELSE i

RECURSIVE FirstSpace(_, _)
\* the first index at or after i of a whitespace character
FirstSpace(s, i) ==
    IF i > Len(s) THEN i
    ELSE IF IsSpace(Char(s, i)) THEN i
    ELSE FirstSpace(s, i + 1)

\* s.strip()
Strip(s) == SubSeq(s, FirstNonSpace(s, 1), LastNonSpace(s, Len(s)))

RECURSIVE NextNewline(_, _)
\* the index of the next newline at or after i, 0 when there is none
NextNewline(s, i) ==
    IF i > Len(s) THEN 0
    ELSE IF Char(s, i) = "\n" THEN i
    ELSE NextNewline(s, i + 1)

RECURSIVE SplitFrom(_, _)
SplitAt(s, i, n) ==
    IF n = 0 THEN <<SubSeq(s, i, Len(s))>>
    ELSE <<SubSeq(s, i, n - 1)>> \o SplitFrom(s, n + 1)

\* s[i:].split('\n')
SplitFrom(s, i) == SplitAt(s, i, NextNewline(s, i))

\* [line.strip() for line in lines]
StripEach(lines) == [i \in 1..Len(lines) |-> Strip(lines[i])]

RECURSIVE BraceCountFrom(_, _, _)
\* brace_count after the characters of line from i on
BraceCountFrom(line, i, brace_count) ==
    IF i > Len(line) THEN brace_count
    ELSE BraceCountFrom(line, i + 1,
            IF Char(line, i) = "{" THEN brace_count + 1
            ELSE IF Char(line, i) = "}" THEN brace_count - 1
            ELSE brace_count)

RECURSIVE Block(_, _)
\* a loop body that appends every line
BlockStep_KeepAll(lines, c) == <<Head(lines)>> \o Block(Tail(lines), c)

\* the line is appended when brace_count is 0 after it
BlockStep(lines, c) ==
    (IF c = 0 THEN <<Head(lines)>> ELSE <<>>) \o Block(Tail(lines), c)

\* the list block, from the lines not yet visited and brace_count before them
Block(lines, brace_count) ==
    IF lines = <<>> THEN <<>>
    ELSE BlockStep(lines, BraceCountFrom(Head(lines), 1, brace_count))

\* line.split(None, 1), given a = the start of the first token, e = the index
\* after it and b = the start of the remainder
SplitParts(line, a, e, b) ==
    IF a > Len(line) THEN <<>>
    ELSE IF b > Len(line) THEN <<SubSeq(line, a, e - 1)>>
    ELSE <<SubSeq(line, a, e - 1), SubSeq(line, b, Len(line))>>

SplitOnce(line) ==
    SplitParts(line, FirstNonSpace(line, 1),
               FirstSpace(line, FirstNonSpace(line, 1)),
               FirstNonSpace(line, FirstSpace(line, FirstNonSpace(line, 1))))

\* d[k] = v
Put(d, k, v) == [x \in DOMAIN d \cup {k} |-> IF x = k THEN v ELSE d[x]]

\* one iteration of the second loop
ConfigLine(config, line, parts) ==
    IF line = "" \/ line \in {"{", "}"} THEN config
    ELSE IF Contains(line, " ")
         THEN IF Len(parts) = 2 THEN Put(config, parts[1], Strip(parts[2]))
              ELSE IF Len(parts) = 1 THEN Put(config, parts[1], "{")
              ELSE config
    ELSE config

RECURSIVE ConfigFrom(_, _)
ConfigFrom(block, config) ==
    IF block = <<>> THEN config
    ELSE ConfigFrom(Tail(block),
                    ConfigLine(config, Head(block), SplitOnce(Head(block))))

parse_config_block(block_content) ==
    ConfigFrom(Block(StripEach(SplitFrom(Strip(block_content), 1)), 0), EmptyDict)

\* the literal head of vs_pattern
vs_prefix == "ltm virtual "

RECURSIVE NameEnd(_, _)
\* the index after the longest run of [^\s{] that starts at i
NameEnd(s, i) ==
    IF i > Len(s) THEN i
    ELSE IF IsSpace(Char(s, i)) \/ Char(s, i) = "{" THEN i
    ELSE NameEnd(s, i + 1)

\* \s*\{ after the name that ends before e: the match <<start, name, index of
\* the brace>>, or <<>> (a shorter name is followed by a name character, so
\* backtracking finds nothing)
MatchBrace(s, i, n, e, b) ==
    IF b <= Len(s) /\ Char(s, b) = "{" THEN <<i, SubSeq(s, n, e - 1), b>> ELSE <<>>

MatchName(s, i, n, e) ==
    IF e = n THEN <<>> ELSE MatchBrace(s, i, n, e, FirstNonSpace(s, e))

\* vs_pattern matched at position i
MatchVsAt(s, i) ==
    IF MatchesAt(s, i, vs_prefix)
    THEN MatchName(s, i, i + Len(vs_prefix), NameEnd(s, i + Len(vs_prefix)))
    ELSE <<>>

\* the least index of a non-empty set of indices
Least(S) == CHOOSE i \in S : \A j \in S : i <= j

\* the positions at which vs_pattern matches
MatchStarts(s) == {i \in 1..Len(s) : MatchVsAt(s, i) # <<>>}

RECURSIVE FindFrom(_, _)
\* the matches that start in the set starts, left to right, the search
\* resuming after the brace that ends each match
FindFrom(s, starts) ==
    IF starts = {} THEN <<>>
    ELSE <<MatchVsAt(s, Least(starts))>>
         \o FindFrom(s, {i \in starts : i > MatchVsAt(s, Least(starts))[3]})

\* re.finditer(vs_pattern, s)
FindIter(s) == FindFrom(s, MatchStarts(s))

\* the indices from i on that hold a brace: the only iterations of the inner
\* loop that do anything
BraceIndices(s, i) == {j \in i..Len(s) : Char(s, j) = "{" \/ Char(s, j) = "}"}

RECURSIVE ScanBraces(_, _, _, _, _)
\* the inner loop over the braces not yet visited: <<block_start, block_end>>
\* as the first and last index of block_content when the loop breaks, <<>>
\* when it runs out
ScanStep(s, braces, i, brace_count, in_vs_block, block_start) ==
    IF Char(s, i) = "{"
    THEN ScanBraces(s, braces \ {i}, brace_count + 1, TRUE,
                    IF in_vs_block THEN block_start ELSE i + 1)
    ELSE IF brace_count - 1 = 0 /\ in_vs_block
         THEN <<block_start, i - 1>>
         ELSE ScanBraces(s, braces \ {i}, brace_count - 1, in_vs_block, block_start)

ScanBraces(s, braces, brace_count, in_vs_block, block_start) ==
    IF braces = {} THEN <<>>
    ELSE ScanStep(s, braces, Least(braces), brace_count, in_vs_block, block_start)

\* the body of the loop over the matches, given the span the scan found
Extract(s, match, servers, span) ==
    IF span = <<>> THEN servers
    ELSE Put(servers, match[2], parse_config_block(SubSeq(s, span[1], span[2])))

\* one iteration of the loop over the matches: the scan starts at match.start()
ExtractMatch(s, match, servers) ==
    Extract(s, match, servers,
            ScanBraces(s, BraceIndices(s, match[1]), 0, FALSE, 0))

RECURSIVE ExtractAll(_, _, _)
ExtractAll(s, ms, servers) ==
    IF ms = <<>> THEN servers
    ELSE ExtractAll(s, Tail(ms), ExtractMatch(s, Head(ms), servers))

parse_ltm_virtual_servers(s) == ExtractAll(s, FindIter(s), EmptyDict)

(***************************************************************************)
(* mask_sensitive_data                                                     *)
(***************************************************************************)
\* s[i:] starts with word, case ignored (re.IGNORECASE)
SameIgnoringCase(s, i, word) ==
    /\ i + Len(word) - 1 <= Len(s)
    /\ \A k \in 1..Len(word) :
          /\ Char(s, i + k - 1) \in CharSet
          /\ LowerChar(Char(s, i + k - 1)) = Char(word, k)

\* \s+\S+ from index w, given b = the first index at or after w that holds no
\* whitespace: the last index of the match, 0 when there is none
MaskTail(s, w, b) == IF b > w /\ b <= Len(s) THEN FirstSpace(s, b) - 1 ELSE 0

\* the last index of a match of  word\s+\S+  that starts at i, 0 when none
MaskMatchEnd(s, i, word) ==
    IF SameIgnoringCase(s, i, word)
    THEN MaskTail(s, i + Len(word), FirstNonSpace(s, i + Len(word)))
    ELSE 0

MaskStarts(s, word) == {i \in 1..Len(s) : MaskMatchEnd(s, i, word) > 0}

RECURSIVE MaskFrom(_, _, _, _)
\* re.sub from index i on: the matches left to right, none overlapping
MaskFrom(s, i, word, starts) ==
    IF starts = {} THEN SubSeq(s, i, Len(s))
    ELSE SubSeq(s, i, Least(starts) - 1) \o word \o " ********"
         \o MaskFrom(s, MaskMatchEnd(s, Least(starts), word) + 1, word,
                     {j \in starts : j > MaskMatchEnd(s, Least(starts), word)})

\* re.sub(word\s+\S+, word ********, s, flags=re.IGNORECASE)
MaskWord(s, word) == MaskFrom(s, 1, word, MaskStarts(s, word))

mask_sensitive_data(s) ==
    MaskWord(MaskWord(MaskWord(MaskWord(s, "password"), "secret"), "key"), "cert")

(***************************************************************************)
(* analyze_patterns                                                        *)
(*                                                                         *)
(* A percentage is a Python float.  The stored percentages, round(p, 1),   *)
(* are kept here in tenths of a percent (33.3 is 333); the comparisons of  *)
(* the unrounded float with 5.0, 1.0 and 95.0 agree with the comparison of *)
(* the exact quotient for every total below 400.                           *)
(***************************************************************************)
\* the dict built at the head of the function
InitialInsights ==
    [alerts |-> <<>>, warnings |-> <<>>, info |-> <<>>,
     critical_count |-> 0, warning_count |-> 0, match_count |-> 0,
     total_count |-> 0,
     critical_percentage |-> 0, warning_percentage |-> 0, match_percentage |-> 0,
     risk_level |-> "LOW"]

\* sum(1 for vs in data if vs[flag])
CountFlag(data, flag) == Cardinality({i \in 1..Len(data) : data[i][flag]})

\* [vs for vs in comparison_data if vs['environment'] == 'PROD']
prod_vs(data) == SelectSeq(data, LAMBDA vs : vs.environment = "PROD")

\* a match count that forgets the warnings
MatchCount_IgnoringWarnings(total_vs, critical, warnings) == total_vs - critical

\* matches = total_vs - critical - warnings
MatchCount(total_vs, critical, warnings) == total_vs - critical - warnings

\* (count / total_vs * 100) if total_vs > 0 else 0, compared with >= to a bound
AtLeastPercent(count, total_vs, bound) ==
    IF total_vs > 0 THEN 100 * count >= bound * total_vs ELSE 0 >= bound

\* round((count / total_vs * 100) if total_vs > 0 else 0, 1), in tenths: the
\* values round() can return.  Off a tie it is the nearest tenth.  On an exact
\* tie the float product carries a rounding error and round() goes to either
\* neighbour (23/80*100 gives 28.7, 49/80*100 gives 61.3).
RoundedTenths(count, total_vs) ==
    IF total_vs = 0 THEN {0}
    ELSE LET a    == IF count < 0 THEN -count ELSE count
             sign == IF count < 0 THEN -1 ELSE 1
             q    == (1000 * a) \div total_vs
             r    == (1000 * a) % total_vs
         IN  IF 2 * r < total_vs THEN {sign * q}
             ELSE IF 2 * r > total_vs THEN {sign * (q + 1)}
             ELSE {sign * q, sign * (q + 1)}

\* a risk level taken from the percentage rounded to one decimal
RiskLevel_Rounded(critical, total_vs) ==
    LET tenths == IF total_vs = 0 THEN 0
                  ELSE (2000 * critical + total_vs) \div (2 * total_vs)
    IN  IF tenths >= 50 THEN "HIGH"
        ELSE IF tenths >= 10 THEN "MEDIUM"
        ELSE "LOW"

\* the risk level from the unrounded critical_pct
RiskLevel(critical, total_vs) ==
    IF AtLeastPercent(critical, total_vs, 5) THEN "HIGH"
    ELSE IF AtLeastPercent(critical, total_vs, 1) THEN "MEDIUM"
    ELSE "LOW"

Assessment(risk_level) ==
    IF risk_level = "HIGH" THEN "HIGH RISK - Significant critical issues detected"
    ELSE IF risk_level = "MEDIUM"
         THEN "MEDIUM RISK - Some critical issues require attention"
    ELSE "LOW RISK - Minimal critical issues"

\* one finding; message holds the values its text is formatted from
Finding(type, message, severity) ==
    [type |-> type, message |-> message, severity |-> severity]

\* alerts without the rule on production
Alerts_NoProdRule(critical, prod_critical) ==
    IF critical > 0 THEN <<Finding("CRITICAL_ISSUES", <<critical>>, "HIGH")>> ELSE <<>>

\* rules 1 and 2
Alerts(critical, prod_critical) ==
    (IF critical > 0
     THEN <<Finding("CRITICAL_ISSUES", <<critical>>, "HIGH")>> ELSE <<>>)
    \o (IF prod_critical > 0
        THEN <<Finding("PROD_CRITICAL", <<prod_critical>>, "HIGH")>> ELSE <<>>)

\* rules 3, 4 and 5
Warnings(prod_warnings, no_redundancy, warnings) ==
    (IF prod_warnings > 0
     THEN <<Finding("PROD_WARNINGS", <<prod_warnings>>, "MEDIUM")>> ELSE <<>>)
    \o (IF no_redundancy > 0
        THEN <<Finding("NO_REDUNDANCY", <<no_redundancy>>, "MEDIUM")>> ELSE <<>>)
    \o (IF warnings > 0
        THEN <<Finding("WARNINGS_DETECTED", <<warnings>>, "MEDIUM")>> ELSE <<>>)

RECURSIVE EnvOrder(_, _)
\* the keys of env_counts in insertion order, seen holding those already met
EnvOrder(data, seen) ==
    IF data = <<>> THEN <<>>
    ELSE IF Head(data).environment \in seen THEN EnvOrder(Tail(data), seen)
    ELSE <<Head(data).environment>>
         \o EnvOrder(Tail(data), seen \cup {Head(data).environment})

\* env_counts.items()
env_counts(data) ==
    LET order == EnvOrder(data, {})
    IN  [i \in 1..Len(order) |->
            <<order[i],
              Cardinality({j \in 1..Len(data) : data[j].environment = order[i]})>>]

\* rules 6 and 7
Info(distribution, matches, total_vs) ==
    <<Finding("ENVIRONMENT_DISTRIBUTION", distribution, "INFO")>>
    \o (IF AtLeastPercent(matches, total_vs, 95)
        THEN <<Finding("MOSTLY_MATCHES", <<matches>>, "INFO")>> ELSE <<>>)

\* the dict returned, given the counts and the three rounded percentages
Insights(data, total_vs, critical, warnings, matches, cp, wp, mp) ==
    [alerts   |-> Alerts(critical, CountFlag(prod_vs(data), "isCritical")),
     warnings |-> Warnings(CountFlag(prod_vs(data), "isWarning"),
                           CountFlag(data, "hasNoRedundancy"), warnings),
     info     |-> Info(env_counts(data), matches, total_vs),
     critical_count |-> critical, warning_count |-> warnings,
     match_count |-> matches, total_count |-> total_vs,
     critical_percentage |-> cp, warning_percentage |-> wp, match_percentage |-> mp,
     risk_level |-> RiskLevel(critical, total_vs),
     assessment |-> Assessment(RiskLevel(critical, total_vs))]

\* the counts of lines 451-454
Analysis(data, total_vs, critical, warnings, matches) ==
    \E cp \in RoundedTenths(critical, total_vs),
       wp \in RoundedTenths(warnings, total_vs),
       mp \in RoundedTenths(matches, total_vs) :
        insights' = Insights(data, total_vs, critical, warnings, matches, cp, wp, mp)

(***************************************************************************)
(* lambda_handler: the values it builds                                    *)
(***************************************************************************)
server1 == "10.100.0.10"
server2 == "10.200.0.10"

\* datetime.now(), formatted: one instant stands for all
s3_timestamp == "20240101-100000"

\* str(e) of the exception an external call raises
ErrorText(call, outcome) == call \o " failed: " \o outcome

\* the presigned URL upload_to_s3 returns
PresignedUrl == "https://s3/comparisons/" \o s3_timestamp \o "_f5_ltm_comparison.zip"

\* the statistics of the handler
Statistics(data) ==
    [total         |-> Len(data),
     differences   |-> CountFlag(data, "hasDifferences"),
     critical      |-> CountFlag(data, "isCritical"),
     warnings      |-> CountFlag(data, "isWarning"),
     no_redundancy |-> CountFlag(data, "hasNoRedundancy")]

\* the dict returned at the end of the try block
SuccessResponse(url, statistics, ins) ==
    [statusCode |-> 200,
     body |-> [message    |-> "F5 LTM comparison completed successfully",
               servers    |-> <<server1, server2>>,
               s3_url     |-> url,
               timestamp  |-> s3_timestamp,
               statistics |-> statistics,
               insights   |-> ins]]

\* an error response that does not carry the message of the exception
ErrorResponse_NoMessage(e) ==
    [statusCode |-> 500,
     body |-> [message |-> "Error during F5 LTM comparison", error |-> ""]]

\* the dict returned by the except clause
ErrorResponse(e) ==
    [statusCode |-> 500,
     body |-> [message |-> "Error during F5 LTM comparison", error |-> e.message]]

\* no exception, no response
None == <<>>

(***************************************************************************)
(* Inputs                                                                  *)
(***************************************************************************)
VsNames == {"/Common/prod_web", "PROD_api", "corp_app", "crp_db", "sb_test",
            "/Common/web_vs"}

Keys == {"creation-time", "destination", "last-modified-time", "pool"}

Addresses == {"10.100.1.5:443", "10.200.1.5:443", "10.100.1.9:443", "192.168.1.1:80"}

Times == {"2024-01-01:10:00:00", "2025-06-30:12:30:00"}

Pools == {"/Common/pool_a", "/Common/pool_b"}

ValuesFor(k) ==
    IF k = "destination" THEN Addresses
    ELSE IF k \in TimestampKeys THEN Times
    ELSE Pools

\* the parsed bodies with at most MaxKeys keys
Bodies ==
    UNION {{f \in [K -> Addresses \cup Times \cup Pools] : \A k \in K : f[k] \in ValuesFor(k)} :
           K \in {S \in SUBSET Keys : Cardinality(S) <= MaxKeys}}

\* the sets that hold at most the object n
ConfigSets(n) == {EmptyDict} \cup {[x \in {n} |-> b] : b \in Bodies}

\* the object names and the bodies of a run with several objects
MultiNames == {"/Common/prod_web", "PROD_api", "corp_app", "sb_test"}

MultiBodies ==
    {[k \in {"pool"} |-> "/Common/pool_a"],
     [k \in {"destination", "pool"} |->
        IF k = "pool" THEN "/Common/pool_b" ELSE "10.100.1.5:443"],
     [k \in {"creation-time", "destination"} |->
        IF k = "destination" THEN "10.200.1.5:443" ELSE "2024-01-01:10:00:00"]}

\* the sets that hold at most MaxObjects objects
MultiSets ==
    UNION {[S -> MultiBodies] :
           S \in {T \in SUBSET MultiNames : Cardinality(T) <= MaxObjects}}

\* the records given to a direct call of analyze_patterns
AnalyzeRecord(path, env, critical, warning, no_redundancy) ==
    [path |-> path, name |-> LastSegment(path), environment |-> env,
     isCritical |-> critical, isWarning |-> warning,
     hasNoRedundancy |-> no_redundancy]

Repeat(r, n) == [i \in 1..n |-> r]

Totals == {0, 1, 3, 16, 20, 21, 100, 101}

\* c[1] PROD critical records, then c[2] CORP critical, c[3] PROD critical and
\* warning, c[4] PROD warning, c[5] CORP warning without redundancy, c[6]
\* UNKNOWN without redundancy, and matching records up to the total c[7]
Compose(c) ==
    Repeat(AnalyzeRecord("/Common/prod_web", "PROD", TRUE, FALSE, FALSE), c[1])
    \o Repeat(AnalyzeRecord("corp_app", "CORP", TRUE, FALSE, FALSE), c[2])
    \o Repeat(AnalyzeRecord("PROD_api", "PROD", TRUE, TRUE, FALSE), c[3])
    \o Repeat(AnalyzeRecord("PROD_api", "PROD", FALSE, TRUE, FALSE), c[4])
    \o Repeat(AnalyzeRecord("crp_db", "CORP", FALSE, TRUE, TRUE), c[5])
    \o Repeat(AnalyzeRecord("/Common/web_vs", "UNKNOWN", FALSE, FALSE, TRUE), c[6])
    \o Repeat(AnalyzeRecord("/Common/web_vs", "UNKNOWN", FALSE, FALSE, FALSE),
              c[7] - (c[1] + c[2] + c[3] + c[4] + c[5] + c[6]))

AnalyzeInputs ==
    {Compose(c) : c \in
        {d \in (0..MaxCritical) \X (0..1) \X (0..1) \X (0..1) \X (0..1) \X (0..1)
               \X Totals : d[1] + d[2] + d[3] + d[4] + d[5] + d[6] <= d[7]}}

\* the texts given to a direct call of parse_ltm_virtual_servers: a text is
\* written from a sequence of declarations, each a name, the text between the
\* name and the end of the first line, the lines of the body and whether the
\* closing brace is written
BodyLines ==
    {"pool /Common/pool_a", "description web  front", "profiles {",
     "/Common/http { }", "}", "ip-forward", "mask\t255.255.255.255", ""}

BodySeqs == UNION {[1..n -> BodyLines] : n \in 0..MaxBodyLines}

Decl(name, opener, lines, closed) ==
    [name |-> name, opener |-> opener, lines |-> lines, closed |-> closed]

MainDecls == {Decl("/Common/prod_web", " {", l, c) : l \in BodySeqs, c \in BOOLEAN}

BalancedNeighbour == Decl("corp_app", "{", <<"pool /Common/pool_b">>, TRUE)
UnbalancedNeighbour == Decl("sb_test", " {", <<"pool /Common/pool_b">>, FALSE)
BraceNameNeighbour == Decl("a}b", " {", <<"pool /Common/pool_b">>, TRUE)

Writings ==
    {<<>>}
    \cup {<<d>> : d \in MainDecls}
    \cup {<<d, BalancedNeighbour>> : d \in MainDecls}
    \cup {<<UnbalancedNeighbour, d>> : d \in MainDecls}
    \cup {<<d, BraceNameNeighbour>> : d \in MainDecls}

RECURSIVE RenderLines(_)
RenderLines(lines) ==
    IF lines = <<>> THEN ""
    ELSE "    " \o Head(lines) \o "\n" \o RenderLines(Tail(lines))

RenderDecl(d) ==
    vs_prefix \o d.name \o d.opener \o "\n" \o RenderLines(d.lines)
    \o (IF d.closed THEN "}\n" ELSE "")

RECURSIVE Render(_)
Render(w) == IF w = <<>> THEN "" ELSE RenderDecl(Head(w)) \o Render(Tail(w))

\* what precedes the declarations in a text
Preamble == "ltm pool /Common/pool_a {\n    monitor http\n}\n"

Texts(w) == IF w = <<>> THEN {"", Preamble} ELSE {Preamble \o Render(w)}

\* the configuration files a server can hold
FileA ==
    "ltm virtual /Common/prod_web {\n    creation-time 2024-01-01:10:00:00\n"
    \o "    destination 10.100.1.5:443\n    pool /Common/pool_a\n}\n"
    \o "ltm virtual corp_app {\n    pool /Common/pool_a\n    secret s3cr3t\n}\n"

FileB ==
    "ltm virtual /Common/prod_web {\n    creation-time 2025-06-30:12:30:00\n"
    \o "    destination 10.200.1.5:443\n    pool /Common/pool_b\n}\n"

\* a virtual server whose body holds a nested block only
FileC ==
    "ltm virtual sb_test {\n    profiles {\n        /Common/http { }\n    }\n}\n"

Files == {FileA, FileB, FileC, Preamble}

\* the outcomes of a call to an AWS service: botocore raises ClientError for an
\* error response of the service and a BotoCoreError (no subclass of
\* ClientError) when the endpoint cannot be reached
AwsOutcomes == {"ok", "ClientError", "BotoCoreError"}

\* the outcomes of copy_file_from_remote: done, or the call that raised
CopyOutcomes == {"ok", "connect", "open_sftp", "get"}

\* arguments of a direct call of classify_ip_difference
AddrPool == Addresses \cup
    {"10.200.1.9:443", "/Common/10.100.1.5:443", "110.100.1.5:443", "10.100.1",
     "any:80", "10.200.1.5:443 10.100.1.5:443"}

(***************************************************************************)
(* Initial states                                                          *)
(***************************************************************************)
CompareIdle ==
    /\ vs1 = EmptyDict /\ vs2 = EmptyDict
    /\ pc = "idle"
    /\ names = <<>> /\ vs_name = "" /\ env_type = "" /\ keys = <<>>
    /\ configurations = <<>>
    /\ has_differences = FALSE /\ is_critical = FALSE /\ is_warning = FALSE
    /\ comparison_data = <<>>

ClassifyIdle ==
    /\ ip1 = "" /\ ip2 = "" /\ cpc = "idle"
    /\ norm1 = "" /\ site1 = "" /\ norm2 = "" /\ site2 = ""
    /\ ip_result = <<>>

AnalyzeIdle == apc = "idle" /\ insights = InitialInsights

ParseIdle ==
    /\ content = "" /\ written = <<>> /\ ppc = "idle"
    /\ pmatches = <<>> /\ virtual_servers = EmptyDict

CopyIdle ==
    /\ fpc = "idle" /\ transport = None
    /\ opened = {} /\ closes = <<>> /\ failure = "ok"

HandlerIdle ==
    /\ CopyIdle
    /\ hpc = "idle"
    /\ remote1 = "" /\ remote2 = "" /\ TEAMS_WEBHOOK_URL = ""
    /\ content1 = "" /\ content2 = ""
    /\ ran = <<>> /\ exc = None
    /\ stats = Statistics(<<>>) /\ s3_url = ""
    /\ sent = <<>> /\ response = None

Init ==
    /\ \E n \in VsNames : vs1 \in ConfigSets(n) /\ vs2 \in ConfigSets(n)
    /\ pc = "start"
    /\ names = <<>> /\ vs_name = "" /\ env_type = "" /\ keys = <<>>
    /\ configurations = <<>>
    /\ has_differences = FALSE /\ is_critical = FALSE /\ is_warning = FALSE
    /\ comparison_data = <<>>
    /\ ClassifyIdle /\ AnalyzeIdle /\ ParseIdle /\ HandlerIdle

\* a call of compare_virtual_servers on two sets of several objects
InitMulti ==
    /\ vs1 \in MultiSets /\ vs2 \in MultiSets
    /\ pc = "start"
    /\ names = <<>> /\ vs_name = "" /\ env_type = "" /\ keys = <<>>
    /\ configurations = <<>>
    /\ has_differences = FALSE /\ is_critical = FALSE /\ is_warning = FALSE
    /\ comparison_data = <<>>
    /\ ClassifyIdle /\ AnalyzeIdle /\ ParseIdle /\ HandlerIdle

InitClassify ==
    /\ ip1 \in AddrPool /\ ip2 \in AddrPool
    /\ cpc = "call"
    /\ norm1 = "" /\ site1 = "" /\ norm2 = "" /\ site2 = ""
    /\ ip_result = <<>>
    /\ CompareIdle /\ AnalyzeIdle /\ ParseIdle /\ HandlerIdle

\* a call of analyze_patterns on a sequence of records
InitAnalyze ==
    /\ comparison_data \in AnalyzeInputs
    /\ vs1 = EmptyDict /\ vs2 = EmptyDict /\ pc = "idle"
    /\ names = <<>> /\ vs_name = "" /\ env_type = "" /\ keys = <<>>
    /\ configurations = <<>>
    /\ has_differences = FALSE /\ is_critical = FALSE /\ is_warning = FALSE
    /\ ClassifyIdle
    /\ apc = "call" /\ insights = InitialInsights
    /\ ParseIdle /\ HandlerIdle

\* a call of parse_ltm_virtual_servers on a text
InitParse ==
    /\ written \in Writings
    /\ content \in Texts(written)
    /\ ppc = "call" /\ pmatches = <<>> /\ virtual_servers = EmptyDict
    /\ CompareIdle /\ ClassifyIdle /\ AnalyzeIdle /\ HandlerIdle

\* compare_virtual_servers on two sets, analyze_patterns to be called on what it
\* returns: the sets hold one object with any body, or several objects
InitPipeline ==
    /\ \/ \E n \in VsNames : vs1 \in ConfigSets(n) /\ vs2 \in ConfigSets(n)
       \/ vs1 \in MultiSets /\ vs2 \in MultiSets
    /\ pc = "start"
    /\ names = <<>> /\ vs_name = "" /\ env_type = "" /\ keys = <<>>
    /\ configurations = <<>>
    /\ has_differences = FALSE /\ is_critical = FALSE /\ is_warning = FALSE
    /\ comparison_data = <<>>
    /\ apc = "call" /\ insights = InitialInsights
    /\ ClassifyIdle /\ ParseIdle /\ HandlerIdle

\* an invocation of lambda_handler
InitHandler ==
    /\ remote1 \in Files /\ remote2 \in Files
    /\ TEAMS_WEBHOOK_URL \in {"", "https://hooks.example/teams"}
    /\ hpc = "credentials"
    /\ content1 = "" /\ content2 = ""
    /\ ran = <<>> /\ exc = None
    /\ stats = Statistics(<<>>) /\ s3_url = ""
    /\ sent = <<>> /\ response = None
    /\ CompareIdle /\ ClassifyIdle /\ AnalyzeIdle /\ ParseIdle /\ CopyIdle

(***************************************************************************)
(* compare_virtual_servers                                                 *)
(***************************************************************************)
\* comparison_data = [] and the sorted union of the names
Start ==
    /\ pc = "start"
    /\ names' = Sorted(DOMAIN vs1 \cup DOMAIN vs2)
    /\ comparison_data' = <<>>
    /\ pc' = "names"
    /\ UNCHANGED <<vs1, vs2, vs_name, env_type, keys, configurations,
                   has_differences, is_critical, is_warning>>
    /\ UNCHANGED otherThanCompare

\* the head of the outer loop body
NextVs ==
    /\ pc = "names" /\ names # <<>>
    /\ vs_name' = Head(names)
    /\ names' = Tail(names)
    /\ env_type' = get_environment_type(LastSegment(Head(names)))
    /\ keys' = Sorted(DOMAIN Get(vs1, Head(names), EmptyDict)
                      \cup DOMAIN Get(vs2, Head(names), EmptyDict))
    /\ configurations' = <<>>
    /\ has_differences' = FALSE /\ is_critical' = FALSE /\ is_warning' = FALSE
    /\ pc' = "keys"
    /\ UNCHANGED <<vs1, vs2, comparison_data>>
    /\ UNCHANGED otherThanCompare

\* one iteration of the inner loop on a timestamp key
TimestampField ==
    /\ InFieldLoop /\ IsTimestampField
    /\ configurations' = Append(configurations, TimestampEntry(key, value1, value2))
    /\ keys' = Tail(keys)
    /\ UNCHANGED <<vs1, vs2, pc, names, vs_name, env_type,
                   has_differences, is_critical, is_warning, comparison_data>>
    /\ UNCHANGED otherThanCompare

\* what an iteration of the inner loop does with the outcome o of its branch
RecordField(o, is_ip) ==
    /\ configurations' = Append(configurations,
            Entry(key, value1, value2, o.isDiff, is_ip, o.severity))
    /\ has_differences' = (has_differences \/ o.setDiff)
    /\ is_warning' = (is_warning \/ o.setWarning)
    /\ is_critical' = (is_critical \/ o.setCritical)
    /\ keys' = Tail(keys)

\* one iteration of the inner loop on a destination key with both values present
DestinationField ==
    /\ InFieldLoop /\ IsDestinationField
    /\ RecordField(DestinationOutcome(env_type, value1, value2), TRUE)
    /\ UNCHANGED <<vs1, vs2, pc, names, vs_name, env_type, comparison_data>>
    /\ UNCHANGED otherThanCompare

\* one iteration of the inner loop on any other key
GeneralField ==
    /\ InFieldLoop /\ IsGeneralField
    /\ RecordField(GeneralOutcome(env_type, value1, value2),
                   is_ip_address(value1) \/ is_ip_address(value2))
    /\ UNCHANGED <<vs1, vs2, pc, names, vs_name, env_type, comparison_data>>
    /\ UNCHANGED otherThanCompare

\* the final classification, the badge and the record of the object
FinishVs ==
    /\ pc = "keys" /\ keys = <<>>
    /\ LET f == FinalFlags(env_type, has_no_redundancy, is_critical, is_warning)
       IN  /\ is_critical' = f[1]
           /\ is_warning' = f[2]
           /\ comparison_data' = Append(comparison_data,
                [name            |-> LastSegment(vs_name),
                 path            |-> vs_name,
                 environment     |-> env_type,
                 hasDifferences  |-> has_differences,
                 isCritical      |-> f[1],
                 isWarning       |-> f[2],
                 hasNoRedundancy |-> has_no_redundancy,
                 missingInFile1  |-> missing_in_file1,
                 missingInFile2  |-> missing_in_file2,
                 badgeType       |-> BadgeType(f[1], f[2], has_no_redundancy),
                 configurations  |-> configurations])
    /\ pc' = "names"
    /\ UNCHANGED <<vs1, vs2, names, vs_name, env_type, keys, configurations,
                   has_differences>>
    /\ UNCHANGED otherThanCompare

\* return comparison_data
Return ==
    /\ pc = "names" /\ names = <<>>
    /\ pc' = "done"
    /\ UNCHANGED <<vs1, vs2, names, vs_name, env_type, keys, configurations,
                   has_differences, is_critical, is_warning, comparison_data>>
    /\ UNCHANGED otherThanCompare

Next ==
    \/ Start
    \/ NextVs
    \/ TimestampField
    \/ DestinationField
    \/ GeneralField
    \/ FinishVs
    \/ Return

Spec == Init /\ [][Next]_vars

SpecMulti == InitMulti /\ [][Next]_vars

(***************************************************************************)
(* A direct call of classify_ip_difference                                 *)
(***************************************************************************)
\* the two calls of normalize_site_ip
Normalize ==
    /\ cpc = "call"
    /\ norm1' = normalize_site_ip(ip1)[1] /\ site1' = normalize_site_ip(ip1)[2]
    /\ norm2' = normalize_site_ip(ip2)[1] /\ site2' = normalize_site_ip(ip2)[2]
    /\ cpc' = "normalized"
    /\ UNCHANGED <<ip1, ip2, ip_result>>
    /\ UNCHANGED otherThanClassify

\* the decision and the return
Classify ==
    /\ cpc = "normalized"
    /\ ip_result' = ClassifyNormalized(norm1, site1, norm2, site2)
    /\ cpc' = "returned"
    /\ UNCHANGED <<ip1, ip2, norm1, site1, norm2, site2>>
    /\ UNCHANGED otherThanClassify

NextClassify ==
    \/ Normalize
    \/ Classify

SpecClassify == InitClassify /\ [][NextClassify]_vars

(***************************************************************************)
(* A call of analyze_patterns                                              *)
(***************************************************************************)
\* the whole function: counts, percentages, risk level and the seven rules
AnalyzePatterns ==
    /\ apc = "call" /\ pc \in {"idle", "done"}
    /\ Analysis(comparison_data, Len(comparison_data),
                CountFlag(comparison_data, "isCritical"),
                CountFlag(comparison_data, "isWarning"),
                MatchCount(Len(comparison_data),
                           CountFlag(comparison_data, "isCritical"),
                           CountFlag(comparison_data, "isWarning")))
    /\ apc' = "returned"
    /\ UNCHANGED otherThanAnalyze

NextAnalyze == AnalyzePatterns

SpecAnalyze == InitAnalyze /\ [][NextAnalyze]_vars

\* comparison_data = compare_virtual_servers(vs1, vs2), then
\* insights = analyze_patterns(comparison_data)
NextPipeline ==
    \/ Next
    \/ AnalyzePatterns

SpecPipeline == InitPipeline /\ [][NextPipeline]_vars

(***************************************************************************)
(* A call of parse_ltm_virtual_servers                                     *)
(***************************************************************************)
\* virtual_servers = {} and the matches of vs_pattern
ParseStart ==
    /\ ppc = "call"
    /\ virtual_servers' = EmptyDict
    /\ pmatches' = FindIter(content)
    /\ ppc' = "matches"
    /\ UNCHANGED <<content, written>>
    /\ UNCHANGED otherThanParse

\* one iteration of the loop over the matches
ParseMatch ==
    /\ ppc = "matches" /\ pmatches # <<>>
    /\ virtual_servers' = ExtractMatch(content, Head(pmatches), virtual_servers)
    /\ pmatches' = Tail(pmatches)
    /\ UNCHANGED <<content, written, ppc>>
    /\ UNCHANGED otherThanParse

\* return virtual_servers
ParseReturn ==
    /\ ppc = "matches" /\ pmatches = <<>>
    /\ ppc' = "returned"
    /\ UNCHANGED <<content, written, pmatches, virtual_servers>>
    /\ UNCHANGED otherThanParse

NextParse ==
    \/ ParseStart
    \/ ParseMatch
    \/ ParseReturn

SpecParse == InitParse /\ [][NextParse]_vars

(***************************************************************************)
(* lambda_handler                                                          *)
(***************************************************************************)
\* an external call raises and nothing between it and the handler's except
\* clause catches the exception
Raise(call, outcome) ==
    /\ ran' = Append(ran, <<call, outcome>>)
    /\ exc' = [call |-> call, message |-> ErrorText(call, outcome)]
    /\ hpc' = "except"

\* an external call returns, or raises what its own function catches and logs
Proceed(call, outcome, next) ==
    /\ ran' = Append(ran, <<call, outcome>>)
    /\ exc' = exc
    /\ hpc' = next

\* get_ssh_credentials and the key file: ClientError is logged and raised again
GetCredentials ==
    /\ hpc = "credentials"
    /\ \E o \in AwsOutcomes :
          IF o = "ok" THEN Proceed("get_ssh_credentials", o, "fetch1")
          ELSE Raise("get_ssh_credentials", o)
    /\ UNCHANGED <<handlerInputs, content1, content2, stats, s3_url, sent, response>>
    /\ UNCHANGED <<compareVars, classifyVars, analyzeVars, parseVars, copyVars>>

\* copy_file_from_remote is entered: transport = None and the SSH client is made
CopyCall ==
    /\ hpc \in {"fetch1", "fetch2"} /\ fpc = "idle"
    /\ fpc' = "connect"
    /\ transport' = None
    /\ opened' = {} /\ closes' = <<>> /\ failure' = "ok"
    /\ UNCHANGED handlerVars
    /\ UNCHANGED <<compareVars, classifyVars, analyzeVars, parseVars>>

\* ssh.connect(...): it opens the client's connection and its transport, or
\* raises, with the client's connection open or not; the outer finally follows
Connect ==
    /\ fpc = "connect"
    /\ \/ /\ opened' = opened \cup {"ssh", "transport"}
          /\ fpc' = "get_transport"
          /\ failure' = failure
       \/ /\ \E half \in SUBSET {"ssh"} : opened' = opened \cup half
          /\ fpc' = "ssh_close"
          /\ failure' = "connect"
    /\ UNCHANGED <<transport, closes>>
    /\ UNCHANGED handlerVars
    /\ UNCHANGED <<compareVars, classifyVars, analyzeVars, parseVars>>

\* transport = ssh.get_transport()
GetTransport ==
    /\ fpc = "get_transport"
    /\ transport' = <<"transport">>
    /\ fpc' = "open_sftp"
    /\ UNCHANGED <<opened, closes, failure>>
    /\ UNCHANGED handlerVars
    /\ UNCHANGED <<compareVars, classifyVars, analyzeVars, parseVars>>

\* sftp = ssh.open_sftp(): outside the inner try, a failure goes to the outer
\* finally
OpenSftp ==
    /\ fpc = "open_sftp"
    /\ \/ /\ opened' = opened \cup {"sftp"}
          /\ fpc' = "get"
          /\ failure' = failure
       \/ /\ opened' = opened
          /\ fpc' = "ssh_close"
          /\ failure' = "open_sftp"
    /\ UNCHANGED <<transport, closes>>
    /\ UNCHANGED handlerVars
    /\ UNCHANGED <<compareVars, classifyVars, analyzeVars, parseVars>>

\* the download without the inner finally: a failure skips sftp.close()
SftpGet_NoFinally ==
    /\ fpc = "get"
    /\ \/ failure' = failure /\ fpc' = "sftp_close"
       \/ failure' = "get" /\ fpc' = "ssh_close"
    /\ UNCHANGED <<transport, opened, closes>>
    /\ UNCHANGED handlerVars
    /\ UNCHANGED <<compareVars, classifyVars, analyzeVars, parseVars>>

\* sftp.get(remote_path, local_path) inside the inner try: the inner finally
\* follows whether it returns or raises
SftpGet ==
    /\ fpc = "get"
    /\ failure' \in {failure, "get"}
    /\ fpc' = "sftp_close"
    /\ UNCHANGED <<transport, opened, closes>>
    /\ UNCHANGED handlerVars
    /\ UNCHANGED <<compareVars, classifyVars, analyzeVars, parseVars>>

\* the inner finally: sftp.close()
SftpClose ==
    /\ fpc = "sftp_close"
    /\ opened' = opened \ {"sftp"}
    /\ closes' = Append(closes, "sftp")
    /\ fpc' = "ssh_close"
    /\ UNCHANGED <<transport, failure>>
    /\ UNCHANGED handlerVars
    /\ UNCHANGED <<compareVars, classifyVars, analyzeVars, parseVars>>

\* the outer finally: ssh.close()
SshClose ==
    /\ fpc = "ssh_close"
    /\ opened' = opened \ {"ssh"}
    /\ closes' = Append(closes, "ssh")
    /\ fpc' = "transport_close"
    /\ UNCHANGED <<transport, failure>>
    /\ UNCHANGED handlerVars
    /\ UNCHANGED <<compareVars, classifyVars, analyzeVars, parseVars>>

\* the outer finally: if transport: transport.close()
TransportClose ==
    /\ fpc = "transport_close"
    /\ IF transport # None
       THEN /\ opened' = opened \ {"transport"}
            /\ closes' = Append(closes, "transport")
       ELSE UNCHANGED <<opened, closes>>
    /\ fpc' = "exit"
    /\ UNCHANGED <<transport, failure>>
    /\ UNCHANGED handlerVars
    /\ UNCHANGED <<compareVars, classifyVars, analyzeVars, parseVars>>

\* copy_file_from_remote(server1, ...) returns or raises: it catches nothing
CopyFile1 ==
    /\ hpc = "fetch1" /\ fpc = "exit"
    /\ IF failure = "ok" THEN Proceed("copy_file_from_remote(server1)", failure, "fetch2")
       ELSE Raise("copy_file_from_remote(server1)", failure)
    /\ fpc' = "idle"
    /\ UNCHANGED <<transport, opened, closes, failure>>
    /\ UNCHANGED <<handlerInputs, content1, content2, stats, s3_url, sent, response>>
    /\ UNCHANGED <<compareVars, classifyVars, analyzeVars, parseVars>>

\* copy_file_from_remote(server2, ...) returns or raises
CopyFile2 ==
    /\ hpc = "fetch2" /\ fpc = "exit"
    /\ IF failure = "ok" THEN Proceed("copy_file_from_remote(server2)", failure, "read")
       ELSE Raise("copy_file_from_remote(server2)", failure)
    /\ fpc' = "idle"
    /\ UNCHANGED <<transport, opened, closes, failure>>
    /\ UNCHANGED <<handlerInputs, content1, content2, stats, s3_url, sent, response>>
    /\ UNCHANGED <<compareVars, classifyVars, analyzeVars, parseVars>>

\* both files are read and masked
ReadAndMask ==
    /\ hpc = "read"
    /\ content1' = mask_sensitive_data(remote1)
    /\ content2' = mask_sensitive_data(remote2)
    /\ hpc' = "parse"
    /\ UNCHANGED <<handlerInputs, ran, exc, stats, s3_url, sent, response>>
    /\ UNCHANGED <<compareVars, classifyVars, analyzeVars, parseVars, copyVars>>

\* both contents are parsed; compare_virtual_servers is called and
\* analyze_patterns is to be called on what it returns
ParseAndCallCompare ==
    /\ hpc = "parse"
    /\ vs1' = parse_ltm_virtual_servers(content1)
    /\ vs2' = parse_ltm_virtual_servers(content2)
    /\ pc' = "start" /\ apc' = "call"
    /\ hpc' = "analysis"
    /\ UNCHANGED <<names, vs_name, env_type, keys, configurations,
                   has_differences, is_critical, is_warning, comparison_data>>
    /\ UNCHANGED <<handlerInputs, content1, content2, ran, exc, stats, s3_url,
                   sent, response>>
    /\ UNCHANGED <<insights, classifyVars, parseVars, copyVars>>

\* the statistics, the report, its file and the zip file
BuildReport ==
    /\ hpc = "analysis" /\ apc = "returned"
    /\ stats' = Statistics(comparison_data)
    /\ ran' = Append(ran, <<"generate_enhanced_html", "ok">>)
    /\ hpc' = "upload"
    /\ UNCHANGED <<handlerInputs, content1, content2, exc, s3_url, sent, response>>
    /\ UNCHANGED <<compareVars, classifyVars, analyzeVars, parseVars, copyVars>>

\* upload_to_s3: ClientError is logged and raised again
Upload ==
    /\ hpc = "upload"
    /\ \E o \in AwsOutcomes :
          IF o = "ok"
          THEN Proceed("upload_to_s3", o, "metadata") /\ s3_url' = PresignedUrl
          ELSE Raise("upload_to_s3", o) /\ s3_url' = s3_url
    /\ UNCHANGED <<handlerInputs, content1, content2, stats, sent, response>>
    /\ UNCHANGED <<compareVars, classifyVars, analyzeVars, parseVars, copyVars>>

\* store_comparison_metadata: ClientError is logged, anything else propagates
StoreMetadata ==
    /\ hpc = "metadata"
    /\ \E o \in AwsOutcomes :
          IF o \in {"ok", "ClientError"}
          THEN Proceed("store_comparison_metadata", o, "metrics")
          ELSE Raise("store_comparison_metadata", o)
    /\ UNCHANGED <<handlerInputs, content1, content2, stats, s3_url, sent, response>>
    /\ UNCHANGED <<compareVars, classifyVars, analyzeVars, parseVars, copyVars>>

\* publish_cloudwatch_metrics: ClientError is logged, anything else propagates
PublishMetrics ==
    /\ hpc = "metrics"
    /\ \E o \in AwsOutcomes :
          IF o \in {"ok", "ClientError"}
          THEN Proceed("publish_cloudwatch_metrics", o, "webhook")
          ELSE Raise("publish_cloudwatch_metrics", o)
    /\ UNCHANGED <<handlerInputs, content1, content2, stats, s3_url, sent, response>>
    /\ UNCHANGED <<compareVars, classifyVars, analyzeVars, parseVars, copyVars>>

\* if TEAMS_WEBHOOK_URL: send_enhanced_webhook(...).  The card is built, then
\* urllib.request.Request(..., timeout=10) raises TypeError (Request takes no
\* timeout), which the function's own except clause logs: nothing is sent
Webhook ==
    /\ hpc = "webhook"
    /\ IF TEAMS_WEBHOOK_URL # ""
       THEN Proceed("send_enhanced_webhook", "TypeError", "return")
       ELSE UNCHANGED <<ran, exc>> /\ hpc' = "return"
    /\ sent' = sent
    /\ UNCHANGED <<handlerInputs, content1, content2, stats, s3_url, response>>
    /\ UNCHANGED <<compareVars, classifyVars, analyzeVars, parseVars, copyVars>>

\* the return at the end of the try block
ReturnSuccess ==
    /\ hpc = "return"
    /\ response' = SuccessResponse(s3_url, stats, insights)
    /\ hpc' = "done"
    /\ UNCHANGED <<handlerInputs, content1, content2, ran, exc, stats, s3_url, sent>>
    /\ UNCHANGED <<compareVars, classifyVars, analyzeVars, parseVars, copyVars>>

\* except Exception as e: the error is logged and the error response returned
HandleException ==
    /\ hpc = "except"
    /\ response' = ErrorResponse(exc)
    /\ hpc' = "done"
    /\ UNCHANGED <<handlerInputs, content1, content2, ran, exc, stats, s3_url, sent>>
    /\ UNCHANGED <<compareVars, classifyVars, analyzeVars, parseVars, copyVars>>

NextHandler ==
    \/ GetCredentials
    \/ CopyCall
    \/ Connect
    \/ GetTransport
    \/ OpenSftp
    \/ SftpGet
    \/ SftpClose
    \/ SshClose
    \/ TransportClose
    \/ CopyFile1
    \/ CopyFile2
    \/ ReadAndMask
    \/ ParseAndCallCompare
    \/ Next
    \/ AnalyzePatterns
    \/ BuildReport
    \/ Upload
    \/ StoreMetadata
    \/ PublishMetrics
    \/ Webhook
    \/ ReturnSuccess
    \/ HandleException

SpecHandler == InitHandler /\ [][NextHandler]_vars

(***************************************************************************)
(* Properties                                                              *)
(***************************************************************************)
Last(seq) == seq[Len(seq)]

\* the records returned so far
Records == {comparison_data[i] : i \in 1..Len(comparison_data)}

Fields(r) == {r.configurations[i] : i \in 1..Len(r.configurations)}

HasSeverity(r, sev) == \E f \in Fields(r) : f.severity = sev

\* the entry appended by the step taken
Appended == Last(configurations')

FlagsUnchanged == UNCHANGED <<has_differences, is_critical, is_warning>>

OneMissing(a, b) == a = MissingMarker \/ b = MissingMarker

\* C1: the badge of a record is CRITICAL if and only if one of its fields has
\* severity CRITICAL.
C1_BadgeCriticalIffCriticalField ==
    \A r \in Records : (r.badgeType = "CRITICAL") <=> HasSeverity(r, "CRITICAL")

C1_Witness ==
    \E r \in Records :
        /\ r.badgeType = "CRITICAL" /\ HasSeverity(r, "CRITICAL")
        /\ r.hasNoRedundancy

\* C2: the badge of a record is WARNING if and only if no field is CRITICAL and
\* (a field is WARNING or the record has no redundancy); it is MATCH if and only
\* if no field is CRITICAL or WARNING and the record has redundancy; in every
\* environment, UNKNOWN included.
C2_BadgeWarningAndMatch ==
    \A r \in Records :
        /\ (r.badgeType = "WARNING") <=>
               /\ ~HasSeverity(r, "CRITICAL")
               /\ (HasSeverity(r, "WARNING") \/ r.hasNoRedundancy)
        /\ (r.badgeType = "MATCH") <=>
               /\ ~HasSeverity(r, "CRITICAL")
               /\ ~HasSeverity(r, "WARNING")
               /\ ~r.hasNoRedundancy

\* C3: no record has isCritical and isWarning both true.
C3_CriticalWarningExclusive ==
    \A r \in Records : ~(r.isCritical /\ r.isWarning)

\* C4: an iteration on creation-time or last-modified-time appends an entry with
\* isDiff false and severity MATCH, whatever the two values and the environment
\* are, and leaves hasDifferences, isCritical and isWarning as they were.
C4_TimestampImmunity ==
    [][(InFieldLoop /\ key \in {"creation-time", "last-modified-time"}) =>
          /\ Len(configurations') = Len(configurations) + 1
          /\ Appended.key = key
          /\ Appended.file1 = value1 /\ Appended.file2 = value2
          /\ Appended.isDiff = FALSE
          /\ Appended.severity = "MATCH"
          /\ FlagsUnchanged]_vars

C4_Witness ==
    /\ pc = "keys" /\ configurations # <<>>
    /\ Last(configurations).key \in {"creation-time", "last-modified-time"}
    /\ Last(configurations).file1 # Last(configurations).file2
    /\ OneMissing(Last(configurations).file1, Last(configurations).file2)
    /\ Last(configurations).isDiff = FALSE
    /\ env_type = "PROD"

C6_CrossSiteIgnored ==
    [][(/\ InFieldLoop /\ IsDestinationField
        /\ classify_ip_difference(value1, value2)[2] = "WARNING") =>
          /\ Len(configurations') = Len(configurations) + 1
          /\ Appended.key = key
          /\ Appended.severity = "MATCH"
          /\ Appended.isDiff = FALSE
          /\ FlagsUnchanged]_vars

C6_Witness ==
    /\ pc = "keys" /\ configurations # <<>>
    /\ env_type = "PROD"
    /\ Last(configurations).key = "destination"
    /\ Last(configurations).file1 = "10.200.1.5:443"
    /\ Last(configurations).file2 = "10.100.1.9:443"
    /\ Last(configurations).severity = "MATCH"
    /\ ~has_differences

\* C7: an iteration on a destination key whose two values are present and are
\* classified CRITICAL appends a CRITICAL entry and sets isCritical when the
\* environment is PROD; in CORP, SANDBOX and UNKNOWN it appends a WARNING entry
\* with isDiff true and sets isWarning, not isCritical.
C7_CriticalAddressByEnvironment ==
    [][(/\ InFieldLoop /\ IsDestinationField
        /\ classify_ip_difference(value1, value2)[2] = "CRITICAL") =>
          /\ Len(configurations') = Len(configurations) + 1
          /\ Appended.key = key
          /\ Appended.isDiff = TRUE
          /\ has_differences'
          /\ IF env_type = "PROD"
             THEN /\ Appended.severity = "CRITICAL"
                  /\ is_critical'
                  /\ UNCHANGED is_warning
             ELSE /\ env_type \in {"CORP", "SANDBOX", "UNKNOWN"}
                  /\ Appended.severity = "WARNING"
                  /\ is_warning'
                  /\ UNCHANGED is_critical]_vars

C7_Witness ==
    /\ pc = "keys" /\ configurations # <<>>
    /\ env_type = "UNKNOWN"
    /\ Last(configurations).key = "destination"
    /\ Last(configurations).file1 = "10.100.1.5:443"
    /\ Last(configurations).file2 = "192.168.1.1:80"
    /\ Last(configurations).severity = "WARNING"
    /\ is_warning /\ ~is_critical

\* C8: an iteration under the general rule appends an entry whose isDiff is
\* (value1 # value2); when the values differ, the entry is CRITICAL and
\* isCritical is set exactly when the environment is PROD and one value is the
\* missing marker; when they differ in PROD with both present, or in CORP or
\* SANDBOX, the entry is WARNING and isWarning is set; when they are equal the
\* entry is MATCH and no flag is set.
C8_GeneralRule ==
    [][(InFieldLoop /\ IsGeneralField) =>
          LET diff     == value1 # value2
              critical == diff /\ env_type = "PROD" /\ OneMissing(value1, value2)
              warning  == diff /\ \/ (env_type = "PROD" /\ ~OneMissing(value1, value2))
                                  \/ env_type \in {"CORP", "SANDBOX"}
          IN  /\ Len(configurations') = Len(configurations) + 1
              /\ Appended.key = key
              /\ Appended.isDiff = diff
              /\ (Appended.severity = "CRITICAL") <=> critical
              /\ critical => is_critical'
              /\ ~critical => UNCHANGED is_critical
              /\ warning => (Appended.severity = "WARNING" /\ is_warning')
              /\ ~diff => (Appended.severity = "MATCH" /\ FlagsUnchanged)]_vars

C8_Witness ==
    /\ pc = "keys" /\ Len(configurations) = 2
    /\ env_type = "PROD"
    /\ configurations[1].key = "destination"
    /\ configurations[1].file2 = MissingMarker
    /\ configurations[1].severity = "CRITICAL"
    /\ configurations[2].key = "pool"
    /\ configurations[2].file1 # configurations[2].file2
    /\ configurations[2].severity = "WARNING"
    /\ is_critical /\ is_warning

\* C9: a record of a CORP or SANDBOX object with hasNoRedundancy has isWarning
\* true, isCritical false and the badge WARNING, whatever its fields are.
C9_NonProdNoRedundancyIsWarning ==
    \A r \in Records :
        (r.environment \in {"CORP", "SANDBOX"} /\ r.hasNoRedundancy) =>
            /\ r.isWarning
            /\ ~r.isCritical
            /\ r.badgeType = "WARNING"

C9_Witness ==
    \E r \in Records :
        /\ r.environment = "SANDBOX" /\ r.hasNoRedundancy
        /\ r.configurations # <<>>
        /\ ~r.hasDifferences
        /\ r.isWarning /\ r.badgeType = "WARNING"

\* C10: a record has hasNoRedundancy exactly when its object name is a key of
\* only one of the two sets; an object that is a key of both sets has none of
\* hasNoRedundancy, missingInFile1 and missingInFile2, empty bodies included.
C10_NoRedundancyIffOneSided ==
    \A r \in Records :
        LET in1 == r.path \in DOMAIN vs1
            in2 == r.path \in DOMAIN vs2
        IN  /\ r.hasNoRedundancy <=> (in1 # in2)
            /\ (in1 /\ in2) =>
                   (~r.hasNoRedundancy /\ ~r.missingInFile1 /\ ~r.missingInFile2)

\* C11: the comparison returns exactly one record per object name of the union
\* of the two sets, in strictly ascending order of path; the configurations of
\* a record hold exactly one entry per key of the union of the two bodies, in
\* strictly ascending order of key, and a value absent from one side reads
\* '(missing)' while a present value is shown as it is.
C11_RecordsAndEntriesSortedUnion ==
    pc = "done" =>
        /\ {comparison_data[i].path : i \in 1..Len(comparison_data)}
              = DOMAIN vs1 \cup DOMAIN vs2
        /\ \A i \in 1..Len(comparison_data) - 1 :
              StrLess(comparison_data[i].path, comparison_data[i + 1].path)
        /\ \A r \in Records :
              LET c  == r.configurations
                  b1 == Get(vs1, r.path, EmptyDict)
                  b2 == Get(vs2, r.path, EmptyDict)
              IN  /\ {c[j].key : j \in 1..Len(c)} = DOMAIN b1 \cup DOMAIN b2
                  /\ \A j \in 1..Len(c) - 1 : StrLess(c[j].key, c[j + 1].key)
                  /\ \A j \in 1..Len(c) :
                        /\ c[j].file1 = Get(b1, c[j].key, MissingMarker)
                        /\ c[j].file2 = Get(b2, c[j].key, MissingMarker)

\* a run that returned three records, one of an object held by the first set
\* only, with an upper-case path after a path that starts with a slash
C11_Witness ==
    /\ pc = "done" /\ Len(comparison_data) = 3
    /\ comparison_data[1].path = "/Common/prod_web"
    /\ comparison_data[2].path = "PROD_api"
    /\ comparison_data[3].path = "corp_app"
    /\ "corp_app" \notin DOMAIN vs2
    /\ \E j \in 1..Len(comparison_data[2].configurations) :
          comparison_data[2].configurations[j].file1 = MissingMarker
    /\ Len(comparison_data[2].configurations) = 3

\* the counts of the records given to analyze_patterns, taken from the records
CriticalRecords == {i \in 1..Len(comparison_data) : comparison_data[i].isCritical}
WarningRecords == {i \in 1..Len(comparison_data) : comparison_data[i].isWarning}
NoRedundancyRecords ==
    {i \in 1..Len(comparison_data) : comparison_data[i].hasNoRedundancy}
ProdRecords == {i \in 1..Len(comparison_data) : comparison_data[i].environment = "PROD"}

FindingTypes(list) == {list[i].type : i \in 1..Len(list)}

\* the findings of a list carry pairwise different types
NoRepeat(list) == Cardinality(FindingTypes(list)) = Len(list)

C13_PercentagesSumToHundred ==
    apc = "returned" =>
        LET sum == insights.critical_percentage + insights.warning_percentage
                   + insights.match_percentage
        IN  IF Len(comparison_data) > 0
            THEN 990 <= sum /\ sum <= 1010
            ELSE /\ insights.critical_percentage = 0
                 /\ insights.warning_percentage = 0
                 /\ insights.match_percentage = 0

\* three records, one critical, one warning, one matching: 33.3 three times
C13_Witness ==
    /\ apc = "returned" /\ Len(comparison_data) = 3
    /\ insights.critical_percentage = 333
    /\ insights.warning_percentage = 333
    /\ insights.match_percentage = 333

\* C14: the findings are exactly those whose trigger holds, each once; hence
\* a non-empty sequence without a critical, warning or no-redundancy record
\* has no alert and no warning, risk LOW and the MOSTLY_MATCHES finding.
C14_FindingsExactlyTriggered ==
    apc = "returned" =>
        LET total   == Len(comparison_data)
            matches == total - Cardinality(CriticalRecords) - Cardinality(WarningRecords)
        IN  /\ NoRepeat(insights.alerts) /\ NoRepeat(insights.warnings)
            /\ NoRepeat(insights.info)
            /\ FindingTypes(insights.alerts) =
                  {t \in {"CRITICAL_ISSUES"} : CriticalRecords # {}}
                  \cup {t \in {"PROD_CRITICAL"} : CriticalRecords \cap ProdRecords # {}}
            /\ FindingTypes(insights.warnings) =
                  {t \in {"PROD_WARNINGS"} : WarningRecords \cap ProdRecords # {}}
                  \cup {t \in {"NO_REDUNDANCY"} : NoRedundancyRecords # {}}
                  \cup {t \in {"WARNINGS_DETECTED"} : WarningRecords # {}}
            /\ FindingTypes(insights.info) =
                  {"ENVIRONMENT_DISTRIBUTION"}
                  \cup {t \in {"MOSTLY_MATCHES"} :
                            total > 0 /\ 100 * matches >= 95 * total}
            /\ (/\ total > 0
                /\ CriticalRecords = {} /\ WarningRecords = {}
                /\ NoRedundancyRecords = {})
               => /\ insights.alerts = <<>> /\ insights.warnings = <<>>
                  /\ insights.risk_level = "LOW"
                  /\ "MOSTLY_MATCHES" \in FindingTypes(insights.info)

\* a sequence with a critical CORP record and a PROD warning record: the
\* critical alert without the production one, two warnings, no MOSTLY_MATCHES
C14_Witness ==
    /\ apc = "returned" /\ Len(comparison_data) = 3
    /\ CriticalRecords # {} /\ CriticalRecords \cap ProdRecords = {}
    /\ WarningRecords \cap ProdRecords # {}
    /\ Len(insights.alerts) = 1 /\ Len(insights.warnings) = 2
    /\ Len(insights.info) = 1

\* the index in content of the opening brace of the k-th written declaration
OpenBrace(k) ==
    Len(content) - Len(Render(SubSeq(written, k, Len(written))))
    + Len(vs_prefix) + Len(written[k].name) + Len(written[k].opener)

\* the brace depth of content over the indices p..q
Depth(p, q) ==
    Cardinality({j \in p..q : Char(content, j) = "{"})
    - Cardinality({j \in p..q : Char(content, j) = "}"})

\* the brace at p has a matching closing brace before the end of the text
HasClose(p) == \E q \in BraceIndices(content, p) : Depth(p, q) = 0

\* braces opened less braces closed on a line
LineDelta(line) ==
    Cardinality({i \in 1..Len(line) : Char(line, i) = "{"})
    - Cardinality({i \in 1..Len(line) : Char(line, i) = "}"})

RECURSIVE DepthAfter(_, _)
\* the nesting depth inside a body after its first k lines
DepthAfter(lines, k) ==
    IF k = 0 THEN 0 ELSE DepthAfter(lines, k - 1) + LineDelta(lines[k])

\* a written declaration whose body is exactly its lines: the closing brace is
\* written and no line closes more than is open
WellFormed(d) ==
    /\ d.closed
    /\ \A k \in 1..Len(d.lines) : DepthAfter(d.lines, k) >= 0
    /\ DepthAfter(d.lines, Len(d.lines)) = 0

\* the lines of the body at depth 0 that leave the depth at 0
TopLevel(d) ==
    {k \in 1..Len(d.lines) :
        DepthAfter(d.lines, k - 1) = 0 /\ DepthAfter(d.lines, k) = 0}

SpaceIndices(line) == {i \in 1..Len(line) : IsSpace(Char(line, i))}

\* the first whitespace-separated part of a stripped line
FirstWord(line) ==
    IF SpaceIndices(line) = {} THEN line
    ELSE SubSeq(line, 1, Least(SpaceIndices(line)) - 1)

\* what follows the first run of whitespace of a stripped line
Remainder(line) ==
    SubSeq(line,
           Least({i \in Least(SpaceIndices(line))..Len(line) : i \notin SpaceIndices(line)}),
           Len(line))

\* the written declarations whose body was extracted and is exactly their lines
ExtractedWellFormed ==
    {k \in 1..Len(written) :
        WellFormed(written[k]) /\ written[k].name \in DOMAIN virtual_servers}

\* C15: for every text the map the parser returns is best-effort: a text
\* without a declaration gives the empty map, a declaration whose opening brace
\* has no matching closing brace gives no entry, and every declaration whose
\* braces balance is extracted.
C15_ParserBestEffort ==
    ppc = "returned" =>
        /\ written = <<>> => virtual_servers = EmptyDict
        /\ \A k \in 1..Len(written) :
              HasClose(OpenBrace(k)) <=> written[k].name \in DOMAIN virtual_servers

C17_EveryRetainedLineGivesEntry ==
    ppc = "returned" =>
        \A k \in ExtractedWellFormed :
            LET d    == written[k]
                body == virtual_servers[d.name]
            IN  \A j \in TopLevel(d) :
                    LET line == d.lines[j]
                    IN  (line # "" /\ line \notin {"{", "}"}) =>
                            IF SpaceIndices(line) = {}
                            THEN line \in DOMAIN body /\ body[line] = "{"
                            ELSE /\ FirstWord(line) \in DOMAIN body
                                 /\ \E i \in TopLevel(d) :
                                       /\ FirstWord(d.lines[i]) = FirstWord(line)
                                       /\ body[FirstWord(line)] = Remainder(d.lines[i])

\* the calls that retrieve the configuration files
RetrievalCalls ==
    {"get_ssh_credentials", "copy_file_from_remote(server1)",
     "copy_file_from_remote(server2)"}

\* a retrieval call of this invocation has raised
RetrievalFailed ==
    \E i \in 1..Len(ran) : ran[i][1] \in RetrievalCalls /\ ran[i][2] # "ok"

\* both configuration files have been fetched
BothFetched ==
    \E i \in 1..Len(ran) : ran[i] = <<"copy_file_from_remote(server2)", "ok">>

\* C18: once a retrieval call (credentials, first fetch, second fetch) has
\* failed, it stays the last call of the invocation: nothing is read, parsed,
\* compared, analysed, reported, uploaded, stored, published or sent, the
\* second fetch is not attempted after a failed first one, and the handler
\* returns statusCode 500 with the message of that error.
C18_RetrievalFailureStopsRun ==
    RetrievalFailed =>
        /\ Last(ran)[1] \in RetrievalCalls /\ Last(ran)[2] # "ok"
        /\ \A i \in 1..Len(ran) - 1 : ran[i][2] = "ok"
        /\ content1 = "" /\ content2 = ""
        /\ vs1 = EmptyDict /\ vs2 = EmptyDict /\ pc = "idle"
        /\ comparison_data = <<>>
        /\ apc = "idle" /\ insights = InitialInsights
        /\ s3_url = "" /\ sent = <<>>
        /\ hpc \in {"except", "done"}
        /\ hpc = "done" =>
              /\ response.statusCode = 500
              /\ response.body.error = ErrorText(Last(ran)[1], Last(ran)[2])

\* the SFTP download from the first server failed and the handler returned
C18_Witness ==
    /\ hpc = "done"
    /\ ran = <<<<"get_ssh_credentials", "ok">>,
               <<"copy_file_from_remote(server1)", "get">>>>
    /\ response.statusCode = 500

\* C19: when a retrieval error makes the invocation fail, an error-status
\* notification has been issued by the time the handler returns.
C19_ErrorNotificationOnRetrievalFailure ==
    (hpc = "done" /\ RetrievalFailed) =>
        \E i \in 1..Len(sent) : sent[i].status = "error"

\* C20: once both files are fetched, no failure of a delivery step keeps the
\* handler from returning statusCode 200 with the statistics and the insights
\* of the comparison.
C20_DeliveryFailureKeepsResults ==
    (hpc = "done" /\ BothFetched) =>
        /\ response.statusCode = 200
        /\ response.body.statistics = Statistics(comparison_data)
        /\ response.body.insights = insights

\* upload_to_s3 of this invocation has stored the report
ReportUploaded ==
    \E i \in 1..Len(ran) : ran[i] = <<"upload_to_s3", "ok">>

\* C21: when the handler has returned, either it returned statusCode 200, the
\* report is uploaded and the response carries the statistics and the
\* insights, or it returned statusCode 500 and no report is uploaded; a
\* return of 500 after the upload does not happen.
C21_NoPartialResult ==
    hpc = "done" =>
        \/ /\ response.statusCode = 200
           /\ ReportUploaded
           /\ response.body.statistics = Statistics(comparison_data)
           /\ response.body.insights = insights
        \/ /\ response.statusCode = 500
           /\ ~ReportUploaded

\* C22: a returned (false, MATCH) is returned for the exchanged arguments too,
\* and conversely; and when both addresses are site addresses of the same site
\* with different normalized forms, the call and the call with the arguments
\* exchanged both return (true, CRITICAL).
C22_MatchAndSameSiteSymmetric ==
    cpc = "returned" =>
        /\ (ip_result = <<FALSE, "MATCH">>)
              <=> (classify_ip_difference(ip2, ip1) = <<FALSE, "MATCH">>)
        /\ (site1 \in {"NJ", "HRZ"} /\ site1 = site2 /\ norm1 # norm2) =>
              /\ ip_result = <<TRUE, "CRITICAL">>
              /\ classify_ip_difference(ip2, ip1) = <<TRUE, "CRITICAL">>

\* two different hosts of the NJ range have been classified
C22_Witness ==
    /\ cpc = "returned"
    /\ ip1 = "10.100.1.9:443" /\ ip2 = "10.100.1.5:443"
    /\ site1 = "NJ" /\ site2 = "NJ" /\ norm1 # norm2
    /\ ip_result = <<TRUE, "CRITICAL">>

\* the differing fields of the record r that the general rule handled: the key
\* is no destination key, or one of the two values is missing
GeneralDifference(f) ==
    /\ f.isDiff
    /\ f.key \notin TimestampKeys
    /\ ~is_destination(f.key) \/ OneMissing(f.file1, f.file2)

\* C23: in an UNKNOWN object, an iteration of the general rule on two different
\* values appends an entry with isDiff true and sets hasDifferences, and leaves
\* isCritical and isWarning as they were; and a record of an UNKNOWN object
\* present on both sides, all of whose differing fields the general rule
\* handled, has isCritical false and isWarning false.
C23_UnknownGeneralDifferenceNoSeverity ==
    [][/\ (InFieldLoop /\ IsGeneralField /\ env_type = "UNKNOWN" /\ value1 # value2) =>
             /\ Appended.key = key
             /\ Appended.isDiff
             /\ has_differences'
             /\ UNCHANGED <<is_critical, is_warning>>
       /\ \A i \in 1..Len(comparison_data') :
             LET r == comparison_data'[i]
             IN  (/\ r.environment = "UNKNOWN"
                  /\ ~r.missingInFile1 /\ ~r.missingInFile2
                  /\ \A f \in Fields(r) : f.isDiff => GeneralDifference(f)) =>
                     /\ ~r.isCritical /\ ~r.isWarning]_vars

\* the record of an UNKNOWN object whose pools differ and whose destination is
\* missing on one side
C23_Witness ==
    \E r \in Records :
        /\ r.environment = "UNKNOWN"
        /\ ~r.missingInFile1 /\ ~r.missingInFile2
        /\ r.hasDifferences /\ ~r.isCritical /\ ~r.isWarning
        /\ \E f \in Fields(r) : f.key = "pool" /\ f.isDiff
        /\ \E f \in Fields(r) : f.key = "destination" /\ f.isDiff /\ f.file1 = MissingMarker

\* C24: every record compare_virtual_servers has appended with isCritical true
\* is the record of a PROD object; and when analyze_patterns has returned on
\* the records of the comparison, its alerts hold CRITICAL_ISSUES exactly when
\* they hold PROD_CRITICAL.
C24_CriticalOnlyInProd ==
    /\ \A r \in Records : r.isCritical => r.environment = "PROD"
    /\ apc = "returned" =>
          ("CRITICAL_ISSUES" \in FindingTypes(insights.alerts)
              <=> "PROD_CRITICAL" \in FindingTypes(insights.alerts))

\* the analysis of a comparison with a critical PROD object and a CORP object
\* that lacks a key on one side
C24_Witness ==
    /\ apc = "returned"
    /\ FindingTypes(insights.alerts) = {"CRITICAL_ISSUES", "PROD_CRITICAL"}
    /\ \E r \in Records : r.isCritical /\ r.environment = "PROD"
    /\ \E r \in Records :
          /\ r.environment = "CORP" /\ ~r.hasNoRedundancy /\ ~r.isCritical
          /\ \E f \in Fields(r) : f.isDiff /\ OneMissing(f.file1, f.file2)

\* the position of a close() call in closes, 0 if it was not made
ClosedAt(resource) ==
    IF \E i \in 1..Len(closes) : closes[i] = resource
    THEN Least({i \in 1..Len(closes) : closes[i] = resource})
    ELSE 0

\* C25: when copy_file_from_remote returns or raises (after a download, a
\* failed connect, a failed open_sftp or a failed download), ssh.close() has
\* been called; if the SFTP session was opened, sftp.close() was called before
\* ssh.close(); if a transport was obtained, transport.close() has been
\* called; and no connection resource is open.  Nothing is open either once
\* the handler has gone on.
C25_ConnectionsClosedOnEveryPath ==
    /\ fpc = "exit" =>
          /\ failure \in CopyOutcomes
          /\ ClosedAt("ssh") > 0
          /\ failure \in {"ok", "get"} =>
                (ClosedAt("sftp") > 0 /\ ClosedAt("sftp") < ClosedAt("ssh"))
          /\ transport # None => ClosedAt("transport") > 0
          /\ failure \in {"ok", "get", "open_sftp"} => transport # None
          /\ opened = {}
    /\ fpc = "idle" => opened = {}

\* the download from the second server failed after the first one succeeded,
\* and the call is about to raise
C25_Witness ==
    /\ fpc = "exit" /\ hpc = "fetch2"
    /\ failure = "get"
    /\ closes = <<"sftp", "ssh", "transport">>
    /\ opened = {}

\* the handler is past the webhook step of a run that has not failed
PastWebhook ==
    \/ hpc = "return"
    \/ hpc = "done" /\ response.statusCode = 200

\* C26: with TEAMS_WEBHOOK_URL configured, once the handler is past the webhook
\* step of a run whose report was uploaded, either a request to the webhook URL
\* has been issued or the network call of send_enhanced_webhook has failed.
C26_WebhookRequestIssued ==
    (PastWebhook /\ TEAMS_WEBHOOK_URL # "" /\ ReportUploaded) =>
        \/ \E i \in 1..Len(sent) : sent[i].url = TEAMS_WEBHOOK_URL
        \/ \E i \in 1..Len(ran) : ran[i] = <<"send_enhanced_webhook", "URLError">>

\* the number of records with the badge b
BadgeCount(b) ==
    Cardinality({i \in 1..Len(comparison_data) : comparison_data[i].badgeType = b})

\* C27: when analyze_patterns has returned on the records of the comparison,
\* critical_count is the number of records with the badge CRITICAL,
\* warning_count the number with the badge WARNING and match_count the number
\* with the badge MATCH.
C27_CountsAgreeWithBadges ==
    apc = "returned" =>
        /\ insights.critical_count = BadgeCount("CRITICAL")
        /\ insights.warning_count = BadgeCount("WARNING")
        /\ insights.match_count = BadgeCount("MATCH")

\* C28: when analyze_patterns has returned on the records of the comparison,
\* match_count lies between 0 and total_count, and the three percentages lie
\* between 0 and 100 (kept in tenths of a percent: between 0 and 1000).
C28_CountsAndPercentagesInRange ==
    apc = "returned" =>
        /\ 0 <= insights.match_count
        /\ insights.match_count <= insights.total_count
        /\ \A p \in {insights.critical_percentage, insights.warning_percentage,
                     insights.match_percentage} : 0 <= p /\ p <= 1000

\* C29: when compare_virtual_servers has returned on a parsed set given as both
\* arguments, every record has hasDifferences, isCritical, isWarning and
\* hasNoRedundancy false and the badge MATCH, and every field has the severity
\* MATCH.
C29_SelfComparisonAllMatch ==
    (hpc = "analysis" /\ pc = "done" /\ vs1 = vs2) =>
        \A r \in Records :
            /\ ~r.hasDifferences /\ ~r.isCritical /\ ~r.isWarning
            /\ ~r.hasNoRedundancy
            /\ r.badgeType = "MATCH"
            /\ \A f \in Fields(r) : f.severity = "MATCH"

\* an entry and a record with the two sides exchanged
SwappedEntry(f) == [f EXCEPT !.file1 = f.file2, !.file2 = f.file1]

SwappedRecord(r) ==
    [r EXCEPT !.missingInFile1 = r.missingInFile2,
              !.missingInFile2 = r.missingInFile1,
              !.configurations =
                  [i \in 1..Len(r.configurations) |-> SwappedEntry(r.configurations[i])]]

\* C30: when compare_virtual_servers(vs1, vs2) has returned, what it returned is
\* what the function of its arguments gives, and compare_virtual_servers(vs2,
\* vs1) is the same sequence of records (same names in the same order, same
\* environment, badge and flags, same keys with the same isDiff and severity)
\* with file1 and file2 exchanged in every entry and missingInFile1 and
\* missingInFile2 exchanged in every record.  (Stated where the comparison has
\* returned and the analysis, which leaves the records alone, is still to come.)
C30_SwapExchangesSidesOnly ==
    (pc = "done" /\ apc = "call") =>
        /\ comparison_data = compare_virtual_servers(vs1, vs2)
        /\ compare_virtual_servers(vs2, vs1)
              = [i \in 1..Len(comparison_data) |-> SwappedRecord(comparison_data[i])]

\* a comparison of two objects has returned: one is on the second side only,
\* the other is a PROD object that lacks its destination on the first side
C30_Witness ==
    /\ pc = "done" /\ apc = "call" /\ Len(comparison_data) = 2
    /\ \E r \in Records : r.missingInFile1 /\ ~r.missingInFile2
    /\ \E r \in Records :
          /\ r.environment = "PROD" /\ ~r.hasNoRedundancy /\ r.isCritical
          /\ \E f \in Fields(r) :
                f.key = "destination" /\ f.file1 = MissingMarker /\ f.severity = "CRITICAL"
====
